---- MODULE Spec2Model ----
(***************************************************************************)
(* City navigation core: the indexed binary min-heap, the graph store and  *)
(* the shortest-path algorithms of src/src/algorithms.c and the graph      *)
(* implementation (src/unnamed/part_003).                                  *)
(*                                                                         *)
(* The specifications share the variables:                                 *)
(*   SpecHeap   the heap API driven by arbitrary call sequences            *)
(*   SpecHeapCaller  the same, the caller remembering the scores it gave   *)
(*   SpecGraph  the graph mutators driven by arbitrary call sequences      *)
(*   SpecPath   dijkstra and astar called on graphs built by addCity and    *)
(*              addRoad                                                    *)
(*   SpecRoad   addRoad and removeRoad with the arguments of each call     *)
(*   SpecExample  the four-city example graph and the two searches on it   *)
(*   SpecTraverse  BFS and DFS called on graphs built by addCity, addRoad  *)
(*   SpecSift   the heap API on a heap of four slots                       *)
(*   SpecRange  the calls on graphs whose city identifiers may lie outside  *)
(*              the position table of the heap                             *)
(*   SpecSearch  dijkstra and astar one loop iteration at a time, on roads  *)
(*              of any weight addRoad accepts                              *)
(***************************************************************************)
EXTENDS Integers, Sequences, FiniteSets, TLC

(* ------------------------------------------------------------------ *)
(* Program constants                                                   *)
(* ------------------------------------------------------------------ *)

\* graph.h: #define INF 999999
INF == 999999

\* graph.h: #define MAX_CITY_NAME 50
MAX_CITY_NAME == 50

\* createMinHeap: h->pos = malloc(1000 * sizeof(int))
PosTableSize == 1000

\* main: createGraph(50)
InitialCapacity == 50

\* int, of 32 bits: the type of Edge.distance, of dist[] and of gScore[]
IntMax == 2147483647

(* ------------------------------------------------------------------ *)
(* Bounds of the model                                                 *)
(* ------------------------------------------------------------------ *)

\* capacity of the heap driven by SpecHeap
HeapCapacity == 3

\* identifiers handed to the heap API by SpecHeap are 0..MaxHeapID
MaxHeapID == 2

\* scores handed to the heap API by SpecHeap are 0..MaxScore
MaxScore == 2

\* SpecGraph adds no city beyond MaxCities and no road beyond MaxRoads
MaxCities == 3
MaxRoads == 2

\* the graphs of SpecPath have at most MaxPathRoads roads
MaxPathRoads == 4

\* the heap of SpecSift has SiftCapacity slots
SiftCapacity == 4

\* the graphs of SpecSearch have at most MaxSearchRoads roads
MaxSearchRoads == 3

\* a call of SpecSearch runs at most MaxIterations iterations of its main loop
MaxIterations == 8

\* the graphs of SpecTraverse have at most MaxTraverseRoads roads
MaxTraverseRoads == 4

(* ------------------------------------------------------------------ *)
(* Inputs                                                              *)
(* ------------------------------------------------------------------ *)

\* The city records the caller has: identifier, name ("a" or "b"),
\* coordinates. Two records share each name.
CityRecords ==
    { [cityID |-> 0, cityName |-> <<98>>, x |-> 0, y |-> 0],
      [cityID |-> 1, cityName |-> <<97>>, x |-> 0, y |-> 3],
      [cityID |-> 2, cityName |-> <<98>>, x |-> 4, y |-> 0],
      [cityID |-> 3, cityName |-> <<97>>, x |-> 4, y |-> 3] }

CityIDs == {c.cityID : c \in CityRecords}

\* The city records SpecRange hands to addCity: identifiers at both ends of
\* the position table of the heap and beyond them.
RangeCityRecords ==
    { [cityID |-> 0,     cityName |-> <<65>>, x |-> 0, y |-> 0],
      [cityID |-> 999,   cityName |-> <<66>>, x |-> 1, y |-> 0],
      [cityID |-> 1000,  cityName |-> <<67>>, x |-> 2, y |-> 0],
      [cityID |-> -1990, cityName |-> <<68>>, x |-> 0, y |-> 1] }

RangeCityIDs == {c.cityID : c \in RangeCityRecords}

\* The city records SpecPath hands to addCity: cities close to each other,
\* some of them at distances that are not integers.
PathCityRecords ==
    { [cityID |-> 0, cityName |-> <<98>>, x |-> 0, y |-> 0],
      [cityID |-> 1, cityName |-> <<97>>, x |-> 1, y |-> 0],
      [cityID |-> 2, cityName |-> <<98>>, x |-> 2, y |-> 1],
      [cityID |-> 3, cityName |-> <<97>>, x |-> 4, y |-> 0] }

(* ------------------------------------------------------------------ *)
(* Indexed min-heap (algorithms.c)                                     *)
(* ------------------------------------------------------------------ *)

\* HeapNode {cityID, distance, fScore}
HeapNode(cityID, distance, fScore) ==
    [cityID |-> cityID, distance |-> distance, fScore |-> fScore]

\* The contents of a slot of h->nodes that malloc returned and nothing wrote.
\* No operation reads a slot before insertHeap has written all its fields.
UnwrittenNode ==
    HeapNode(-1, 0, 0)

\* h->pos = malloc(1000 * sizeof(int)): the indices inside the table.
InTable(i) ==
    0 <= i /\ i < PosTableSize

\* The entries of h->pos the model keeps: those of the identifiers it can
\* hand to the heap. Every other entry of the PosTableSize-entry table is set
\* to -1 by createMinHeap and is never read or written afterwards. The
\* entries at an index outside the table stand for the memory h->pos[i]
\* names there; a call that reads or writes one has undefined behaviour,
\* and the actions that let such identifiers in (SpecRange) give it every
\* outcome instead of the one computed here.
PosIndex ==
    (0..MaxHeapID) \cup CityIDs \cup RangeCityIDs

\* MinHeap {nodes, size, capacity, pos}; nodes is indexed 0..capacity-1,
\* every entry of pos is -1.
createMinHeap(capacity) ==
    [nodes    |-> [i \in 0..(capacity - 1) |-> UnwrittenNode],
     size     |-> 0,
     capacity |-> capacity,
     pos      |-> [i \in PosIndex |-> -1]]

\* swapHeapNodes without the two position writes.
swapHeapNodes_NoPos(h, a, b) ==
    [h EXCEPT !.nodes = [h.nodes EXCEPT ![a] = h.nodes[b], ![b] = h.nodes[a]]]

\* The two position writes and swapHeapNodes of minHeapify, decreaseKey and
\* insertHeap: pos[nodes[a].cityID] = b; pos[nodes[b].cityID] = a; swap.
\* The writes are sequential: the second one wins when both slots hold the
\* same identifier.
swapHeapNodes(h, a, b) ==
    LET pos1 == [h.pos EXCEPT ![h.nodes[a].cityID] = b]
        pos2 == [pos1 EXCEPT ![h.nodes[b].cityID] = a]
    IN  [h EXCEPT !.pos = pos2,
                  !.nodes = [h.nodes EXCEPT ![a] = h.nodes[b], ![b] = h.nodes[a]]]

RECURSIVE minHeapify(_, _)

\* minHeapify taking the right child when the two children are equal.
minHeapify_PreferRight(h, idx) ==
    LET left  == 2 * idx + 1
        right == 2 * idx + 2
        s1 == IF left < h.size /\ h.nodes[left].fScore < h.nodes[idx].fScore
              THEN left ELSE idx
        smallest == IF right < h.size /\ s1 # idx
                       /\ h.nodes[right].fScore <= h.nodes[s1].fScore
                    THEN right ELSE s1
    IN  IF smallest # idx
        THEN minHeapify(swapHeapNodes(h, smallest, idx), smallest)
        ELSE h

minHeapify(h, idx) ==
    LET left  == 2 * idx + 1
        right == 2 * idx + 2
        s1 == IF left < h.size /\ h.nodes[left].fScore < h.nodes[idx].fScore
              THEN left ELSE idx
        smallest == IF right < h.size /\ h.nodes[right].fScore < h.nodes[s1].fScore
                    THEN right ELSE s1
    IN  IF smallest # idx
        THEN minHeapify(swapHeapNodes(h, smallest, idx), smallest)
        ELSE h

isHeapEmpty(h) ==
    h.size = 0

\* Returns the heap after the call and the node returned.
extractMin(h) ==
    IF isHeapEmpty(h)
    THEN [heap |-> h, node |-> HeapNode(-1, INF, INF)]
    ELSE LET root     == h.nodes[0]
             lastNode == h.nodes[h.size - 1]
             pos1 == [h.pos EXCEPT ![root.cityID] = -1]
             pos2 == [pos1 EXCEPT ![lastNode.cityID] = 0]
             h1 == [h EXCEPT !.nodes = [h.nodes EXCEPT ![0] = lastNode],
                             !.pos = pos2,
                             !.size = h.size - 1]
         IN  [heap |-> minHeapify(h1, 0), node |-> root]

\* The bubble-up loop shared by decreaseKey and insertHeap.
RECURSIVE bubbleUp(_, _)
bubbleUp(h, i) ==
    IF i > 0 /\ h.nodes[i].fScore < h.nodes[(i - 1) \div 2].fScore
    THEN bubbleUp(swapHeapNodes(h, i, (i - 1) \div 2), (i - 1) \div 2)
    ELSE h

decreaseKey(h, cityID, newDist, newFScore) ==
    LET i == h.pos[cityID]
    IN  IF i = -1
        THEN h
        ELSE bubbleUp([h EXCEPT !.nodes[i].distance = newDist,
                                !.nodes[i].fScore = newFScore], i)

insertHeap(h, cityID, distance, fScore) ==
    IF h.size >= h.capacity
    THEN h
    ELSE LET i == h.size
             h1 == [h EXCEPT !.size = h.size + 1,
                             !.nodes[i] = HeapNode(cityID, distance, fScore),
                             !.pos[cityID] = i]
         IN  bubbleUp(h1, i)

\* The identifiers held in slots 0..size-1.
Resident(h, cityID) ==
    \E i \in 0..(h.size - 1) : h.nodes[i].cityID = cityID

(* ------------------------------------------------------------------ *)
(* Graph store (graph.c)                                               *)
(* ------------------------------------------------------------------ *)

\* A name is the sequence of its character codes. strcmp: the sign of the
\* difference at the first position where the two strings differ, the end
\* of a string counting as the character 0.
RECURSIVE strcmp(_, _)
strcmp(a, b) ==
    IF a = <<>> /\ b = <<>> THEN 0
    ELSE IF a = <<>> THEN -1
    ELSE IF b = <<>> THEN 1
    ELSE IF Head(a) < Head(b) THEN -1
    ELSE IF Head(a) > Head(b) THEN 1
    ELSE strcmp(Tail(a), Tail(b))

\* strncpy(dst, cityName, MAX_CITY_NAME - 1); dst[MAX_CITY_NAME - 1] = '\0'
CopyName(cityName) ==
    IF Len(cityName) > MAX_CITY_NAME - 1
    THEN SubSeq(cityName, 1, MAX_CITY_NAME - 1)
    ELSE cityName

\* Edge {destCityID, distance}; an adjacency list is the sequence of its
\* edges from the head on.
Edge(destCityID, distance) ==
    [destCityID |-> destCityID, distance |-> distance]

\* City {cityID, cityName, x, y, adjList}
City(cityID, cityName, x, y, adjList) ==
    [cityID |-> cityID, cityName |-> cityName, x |-> x, y |-> y, adjList |-> adjList]

\* Graph {cities, numCities, capacity}. cities holds slots 0..numCities-1 as
\* the sequence elements 1..numCities; no function reads a slot from
\* numCities on before addCity has written all its fields.
createGraph(initialCapacity) ==
    [cities |-> <<>>, capacity |-> initialCapacity]

numCities(g) ==
    Len(g.cities)

\* g->cities[i], i counted from 0
CityAt(g, i) ==
    g.cities[i + 1]

\* The index of the first slot holding cityID, or -1.
findCityIndex(g, cityID) ==
    IF \E i \in 0..(numCities(g) - 1) : CityAt(g, i).cityID = cityID
    THEN CHOOSE i \in 0..(numCities(g) - 1) :
            /\ CityAt(g, i).cityID = cityID
            /\ \A j \in 0..(i - 1) : CityAt(g, j).cityID # cityID
    ELSE -1

\* The identifier of the first city named cityName, or -1.
findCityByName(g, cityName) ==
    IF \E i \in 0..(numCities(g) - 1) : strcmp(CityAt(g, i).cityName, cityName) = 0
    THEN CityAt(g, CHOOSE i \in 0..(numCities(g) - 1) :
            /\ strcmp(CityAt(g, i).cityName, cityName) = 0
            /\ \A j \in 0..(i - 1) : strcmp(CityAt(g, j).cityName, cityName) # 0).cityID
    ELSE -1

\* addCity without the search for the identifier.
addCity_NoDuplicateCheck(g, cityID, cityName, x, y) ==
    [graph |-> [cities   |-> Append(g.cities,
                                City(cityID, CopyName(cityName), x, y, <<>>)),
                capacity |-> IF numCities(g) >= g.capacity
                             THEN g.capacity * 2 ELSE g.capacity],
     ret   |-> 1]

\* addCity storing the city in slot 0, before the cities there are.
addCity_AtFront(g, cityID, cityName, x, y) ==
    IF findCityIndex(g, cityID) # -1
    THEN [graph |-> g, ret |-> 0]
    ELSE [graph |-> [g EXCEPT !.cities =
                        <<City(cityID, CopyName(cityName), x, y, <<>>)>> \o g.cities],
          ret   |-> 1]

\* Each of the mutators returns the graph after the call and the value
\* returned.
addCity(g, cityID, cityName, x, y) ==
    IF findCityIndex(g, cityID) # -1
    THEN [graph |-> g, ret |-> 0]
    ELSE LET cap == IF numCities(g) >= g.capacity THEN g.capacity * 2 ELSE g.capacity
         IN  [graph |-> [cities   |-> Append(g.cities,
                                        City(cityID, CopyName(cityName), x, y, <<>>)),
                         capacity |-> cap],
              ret   |-> 1]

\* The inner loop of deleteCity: unlink every edge of the list that targets
\* cityID.
RECURSIVE unlinkEdgesTo(_, _)
unlinkEdgesTo(adjList, cityID) ==
    IF adjList = <<>> THEN <<>>
    ELSE IF Head(adjList).destCityID = cityID
         THEN unlinkEdgesTo(Tail(adjList), cityID)
         ELSE <<Head(adjList)>> \o unlinkEdgesTo(Tail(adjList), cityID)

\* deleteCity that leaves the other cities' adjacency lists alone.
deleteCity_NoCascade(g, cityID) ==
    LET index == findCityIndex(g, cityID)
    IN  IF index = -1
        THEN [graph |-> g, ret |-> 0]
        ELSE [graph |-> [g EXCEPT !.cities =
                            [i \in 1..(numCities(g) - 1) |->
                                IF i - 1 < index THEN g.cities[i] ELSE g.cities[i + 1]]],
              ret   |-> 1]

\* deleteCity filling the gap with the last city instead of shifting.
deleteCity_MoveLast(g, cityID) ==
    LET index == findCityIndex(g, cityID)
    IN  IF index = -1
        THEN [graph |-> g, ret |-> 0]
        ELSE LET cleaned == [i \in 1..numCities(g) |->
                                IF i - 1 = index
                                THEN g.cities[i]
                                ELSE [g.cities[i] EXCEPT
                                        !.adjList = unlinkEdgesTo(@, cityID)]]
                 moved == [i \in 1..(numCities(g) - 1) |->
                                IF i - 1 = index THEN cleaned[numCities(g)] ELSE cleaned[i]]
             IN  [graph |-> [g EXCEPT !.cities = moved], ret |-> 1]

deleteCity(g, cityID) ==
    LET index == findCityIndex(g, cityID)
    IN  IF index = -1
        THEN [graph |-> g, ret |-> 0]
        ELSE LET cleaned == [i \in 1..numCities(g) |->
                                IF i - 1 = index
                                THEN g.cities[i]
                                ELSE [g.cities[i] EXCEPT
                                        !.adjList = unlinkEdgesTo(@, cityID)]]
                 shifted == [i \in 1..(numCities(g) - 1) |->
                                IF i - 1 < index THEN cleaned[i] ELSE cleaned[i + 1]]
             IN  [graph |-> [g EXCEPT !.cities = shifted], ret |-> 1]

\* The index, counted from 1, of the first edge of the list that targets
\* cityID, or 0.
firstEdgeTo(adjList, cityID) ==
    IF \E k \in 1..Len(adjList) : adjList[k].destCityID = cityID
    THEN CHOOSE k \in 1..Len(adjList) :
            /\ adjList[k].destCityID = cityID
            /\ \A j \in 1..(k - 1) : adjList[j].destCityID # cityID
    ELSE 0

\* addRoad that never looks for an existing road.
addRoad_AlwaysPrepend(g, fromCityID, toCityID, distance) ==
    LET fromIndex == findCityIndex(g, fromCityID)
        toIndex   == findCityIndex(g, toCityID)
    IN  IF fromIndex = -1 \/ toIndex = -1 \/ distance <= 0
        THEN [graph |-> g, ret |-> 0]
        ELSE [graph |-> [g EXCEPT !.cities[fromIndex + 1].adjList
                                     = <<Edge(toCityID, distance)>> \o @],
              ret   |-> 1]

\* addRoad that accepts every distance.
addRoad_NoDistanceCheck(g, fromCityID, toCityID, distance) ==
    LET fromIndex == findCityIndex(g, fromCityID)
        toIndex   == findCityIndex(g, toCityID)
    IN  IF fromIndex = -1 \/ toIndex = -1
        THEN [graph |-> g, ret |-> 0]
        ELSE LET adjList == CityAt(g, fromIndex).adjList
                 k == firstEdgeTo(adjList, toCityID)
             IN  IF k # 0
                 THEN [graph |-> [g EXCEPT !.cities[fromIndex + 1].adjList[k].distance
                                              = distance],
                       ret   |-> 1]
                 ELSE [graph |-> [g EXCEPT !.cities[fromIndex + 1].adjList
                                              = <<Edge(toCityID, distance)>> \o adjList],
                       ret   |-> 1]

\* addRoad that looks up the source city only.
addRoad_NoTargetCheck(g, fromCityID, toCityID, distance) ==
    LET fromIndex == findCityIndex(g, fromCityID)
    IN  IF fromIndex = -1 \/ distance <= 0
        THEN [graph |-> g, ret |-> 0]
        ELSE LET adjList == CityAt(g, fromIndex).adjList
                 k == firstEdgeTo(adjList, toCityID)
             IN  IF k # 0
                 THEN [graph |-> [g EXCEPT !.cities[fromIndex + 1].adjList[k].distance
                                              = distance],
                       ret   |-> 1]
                 ELSE [graph |-> [g EXCEPT !.cities[fromIndex + 1].adjList
                                              = <<Edge(toCityID, distance)>> \o adjList],
                       ret   |-> 1]

addRoad(g, fromCityID, toCityID, distance) ==
    LET fromIndex == findCityIndex(g, fromCityID)
        toIndex   == findCityIndex(g, toCityID)
    IN  IF fromIndex = -1 \/ toIndex = -1
        THEN [graph |-> g, ret |-> 0]
        ELSE IF distance <= 0
        THEN [graph |-> g, ret |-> 0]
        ELSE LET adjList == CityAt(g, fromIndex).adjList
                 k == firstEdgeTo(adjList, toCityID)
             IN  IF k # 0
                 THEN [graph |-> [g EXCEPT !.cities[fromIndex + 1].adjList[k].distance
                                              = distance],
                       ret   |-> 1]
                 ELSE [graph |-> [g EXCEPT !.cities[fromIndex + 1].adjList
                                              = <<Edge(toCityID, distance)>> \o adjList],
                       ret   |-> 1]

\* removeRoad unlinking the edge back from toCityID as well.
removeRoad_BothDirections(g, fromCityID, toCityID) ==
    LET fromIndex == findCityIndex(g, fromCityID)
    IN  IF fromIndex = -1 \/ firstEdgeTo(CityAt(g, fromIndex).adjList, toCityID) = 0
        THEN [graph |-> g, ret |-> 0]
        ELSE [graph |-> [g EXCEPT !.cities =
                    [i \in 1..Len(g.cities) |->
                        IF g.cities[i].cityID = fromCityID
                        THEN [g.cities[i] EXCEPT !.adjList =
                                 SelectSeq(g.cities[i].adjList,
                                           LAMBDA e : e.destCityID # toCityID)]
                        ELSE IF g.cities[i].cityID = toCityID
                        THEN [g.cities[i] EXCEPT !.adjList =
                                 SelectSeq(g.cities[i].adjList,
                                           LAMBDA e : e.destCityID # fromCityID)]
                        ELSE g.cities[i]]],
              ret   |-> 1]

removeRoad(g, fromCityID, toCityID) ==
    LET fromIndex == findCityIndex(g, fromCityID)
    IN  IF fromIndex = -1
        THEN [graph |-> g, ret |-> 0]
        ELSE LET adjList == CityAt(g, fromIndex).adjList
                 k == firstEdgeTo(adjList, toCityID)
             IN  IF k = 0
                 THEN [graph |-> g, ret |-> 0]
                 ELSE [graph |-> [g EXCEPT !.cities[fromIndex + 1].adjList
                                      = SubSeq(adjList, 1, k - 1)
                                        \o SubSeq(adjList, k + 1, Len(adjList))],
                       ret   |-> 1]

\* The bubble sort of sortCitiesByName: the inner loop at j of pass i, then
\* the passes from i on.
RECURSIVE sortInner(_, _, _)

\* sortInner exchanging two neighbours whose names are equal as well.
sortInner_SwapEqual(cities, i, j) ==
    IF j < Len(cities) - i - 1
    THEN LET swapped ==
                IF strcmp(cities[j + 1].cityName, cities[j + 2].cityName) >= 0
                THEN [cities EXCEPT ![j + 1] = cities[j + 2], ![j + 2] = cities[j + 1]]
                ELSE cities
         IN  sortInner(swapped, i, j + 1)
    ELSE cities

sortInner(cities, i, j) ==
    IF j < Len(cities) - i - 1
    THEN LET swapped ==
                IF strcmp(cities[j + 1].cityName, cities[j + 2].cityName) > 0
                THEN [cities EXCEPT ![j + 1] = cities[j + 2], ![j + 2] = cities[j + 1]]
                ELSE cities
         IN  sortInner(swapped, i, j + 1)
    ELSE cities

RECURSIVE sortOuter(_, _)
sortOuter(cities, i) ==
    IF i < Len(cities) - 1
    THEN sortOuter(sortInner(cities, i, 0), i + 1)
    ELSE cities

sortCitiesByName(g) ==
    IF numCities(g) <= 1
    THEN g
    ELSE [g EXCEPT !.cities = sortOuter(g.cities, 0)]

\* The identifiers of the cities in slots 0..numCities-1.
CityIDsOf(g) ==
    {g.cities[i].cityID : i \in 1..numCities(g)}

\* The number of edges of the graph.
RECURSIVE SumLens(_, _)
SumLens(cities, i) ==
    IF i > Len(cities) THEN 0 ELSE Len(cities[i].adjList) + SumLens(cities, i + 1)

numRoads(g) ==
    SumLens(g.cities, 1)

(* ------------------------------------------------------------------ *)
(* PathResult (algorithms.c)                                           *)
(* ------------------------------------------------------------------ *)

\* PathResult {path, pathLength, totalDistance, pathCapacity}; path holds
\* the pathLength elements written so far. ptr tells a PathResult from the
\* NULL pointer.
createPathResult(capacity) ==
    [ptr |-> "PathResult", path |-> <<>>, pathLength |-> 0,
     totalDistance |-> 0, pathCapacity |-> capacity]

\* The NULL pointer returned in place of a PathResult.
NULL ==
    [ptr |-> "NULL", path |-> <<>>, pathLength |-> 0,
     totalDistance |-> 0, pathCapacity |-> 0]

\* The outcome of a call whose backtracking loop never leaves a cycle of
\* parent links.
NeverReturns ==
    [ptr |-> "never returns", path |-> <<>>, pathLength |-> 0,
     totalDistance |-> 0, pathCapacity |-> 0]

addToPath(pr, cityID) ==
    [pr EXCEPT !.pathCapacity = IF pr.pathLength >= pr.pathCapacity
                                THEN pr.pathCapacity * 2 ELSE pr.pathCapacity,
               !.path = Append(pr.path, cityID),
               !.pathLength = pr.pathLength + 1]

\* The swap loop of reversePath; path[i] is the element i + 1 of the sequence.
RECURSIVE reverseLoop(_, _, _)
reverseLoop(path, pathLength, i) ==
    IF i < pathLength \div 2
    THEN reverseLoop([path EXCEPT ![i + 1] = path[pathLength - i],
                                  ![pathLength - i] = path[i + 1]],
                     pathLength, i + 1)
    ELSE path

\* reversePath that leaves the path as backtracking wrote it.
reversePath_NoSwap(pr) ==
    pr

reversePath(pr) ==
    [pr EXCEPT !.path = reverseLoop(pr.path, pr.pathLength, 0)]

\* The backtracking loop of dijkstra and astar: while (current != -1)
\* addToPath; current = parent[current]. parent[i] is the element i + 1 of
\* the sequence. A walk longer than the number of cities is inside a cycle.
RECURSIVE tracePath(_, _, _, _)
tracePath(g, parent, pr, current) ==
    IF current = -1
    THEN pr
    ELSE IF pr.pathLength > numCities(g)
         THEN NeverReturns
         ELSE tracePath(g, parent, addToPath(pr, CityAt(g, current).cityID),
                        parent[current + 1])

(* ------------------------------------------------------------------ *)
(* int arithmetic                                                      *)
(* ------------------------------------------------------------------ *)

IntMin == -IntMax - 1

\* a + b does not fit an int. Signed overflow is undefined behaviour.
Overflows(a, b) ==
    \/ b > 0 /\ a > IntMax - b
    \/ b < 0 /\ a < IntMin - b

\* a + b as the builds that do not trap compute it: modulo 2^32, in two's
\* complement.
AddInt(a, b) ==
    IF b > 0 /\ a > IntMax - b
    THEN (a + IntMin) + (b + IntMin)
    ELSE IF b < 0 /\ a < IntMin - b
    THEN (a - IntMin) + (b - IntMin)
    ELSE a + b

(* ------------------------------------------------------------------ *)
(* dijkstra (algorithms.c)                                             *)
(* ------------------------------------------------------------------ *)

\* for (i = 0; i < numCities; i++) insertHeap(h, cities[i].cityID, dist[i], dist[i])
RECURSIVE dijkstraInsertAll(_, _, _, _)
dijkstraInsertAll(g, h, dist, i) ==
    IF i >= numCities(g)
    THEN h
    ELSE dijkstraInsertAll(g, insertHeap(h, CityAt(g, i).cityID,
                                         dist[i + 1], dist[i + 1]),
                           dist, i + 1)

\* The body of while (edge): one relaxation from the city in slot u.
\* overflow records that dist[u] + edge->distance left the range of int.
dijkstraRelax(g, st, u, edge) ==
    LET v == findCityIndex(g, edge.destCityID)
    IN  IF st.dist[u + 1] = INF
        THEN st
        ELSE LET d   == AddInt(st.dist[u + 1], edge.distance)
                 st1 == [st EXCEPT !.overflow =
                            @ \/ Overflows(st.dist[u + 1], edge.distance)]
             IN  IF d < st.dist[v + 1]
                 THEN [st1 EXCEPT !.dist[v + 1] = d,
                                  !.parent[v + 1] = u,
                                  !.h = decreaseKey(st.h, edge.destCityID, d, d)]
                 ELSE st1

RECURSIVE dijkstraEdges(_, _, _, _, _)
dijkstraEdges(g, st, u, adjList, k) ==
    IF k > Len(adjList)
    THEN st
    ELSE dijkstraEdges(g, dijkstraRelax(g, st, u, adjList[k]), u, adjList, k + 1)

\* One iteration of while (!isHeapEmpty(h)); running is FALSE once the loop
\* is left.
dijkstraIterate(g, st, destIndex) ==
    IF isHeapEmpty(st.h)
    THEN [st EXCEPT !.running = FALSE]
    ELSE LET e   == extractMin(st.h)
             u   == findCityIndex(g, e.node.cityID)
             st1 == [st EXCEPT !.h = e.heap]
         IN  IF u = destIndex
             THEN [st1 EXCEPT !.running = FALSE]
             ELSE dijkstraEdges(g, st1, u, CityAt(g, u).adjList, 1)

RECURSIVE dijkstraLoop(_, _, _)
dijkstraLoop(g, st, destIndex) ==
    IF st.running
    THEN dijkstraLoop(g, dijkstraIterate(g, st, destIndex), destIndex)
    ELSE st

\* dist, parent and the heap before the main loop.
dijkstraStart(g, srcIndex) ==
    LET dist == [i \in 1..numCities(g) |-> IF i = srcIndex + 1 THEN 0 ELSE INF]
    IN  [dist    |-> dist,
         parent  |-> [i \in 1..numCities(g) |-> -1],
         h       |-> dijkstraInsertAll(g, createMinHeap(numCities(g)), dist, 0),
         running |-> TRUE,
         overflow |-> FALSE]

\* The PathResult built after the main loop.
dijkstraFinish(g, st, destIndex) ==
    IF st.dist[destIndex + 1] = INF
    THEN createPathResult(numCities(g))
    ELSE reversePath(tracePath(g, st.parent,
                               [createPathResult(numCities(g))
                                   EXCEPT !.totalDistance = st.dist[destIndex + 1]],
                               destIndex))

dijkstra(g, sourceCityID, destCityID) ==
    LET srcIndex  == findCityIndex(g, sourceCityID)
        destIndex == findCityIndex(g, destCityID)
    IN  IF srcIndex = -1 \/ destIndex = -1
        THEN NULL
        ELSE dijkstraFinish(g, dijkstraLoop(g, dijkstraStart(g, srcIndex), destIndex),
                            destIndex)

(* ------------------------------------------------------------------ *)
(* astar (algorithms.c)                                                *)
(* ------------------------------------------------------------------ *)

\* (int)sqrt(n) for a sum of two squares n that a double holds exactly.
sqrtInt(n) ==
    CHOOSE r \in 0..n : r * r <= n /\ (r + 1) * (r + 1) > n

\* heuristic without the square root.
heuristic_Squared(g, cityIndex1, cityIndex2) ==
    LET dx == CityAt(g, cityIndex1).x - CityAt(g, cityIndex2).x
        dy == CityAt(g, cityIndex1).y - CityAt(g, cityIndex2).y
    IN  dx * dx + dy * dy

heuristic(g, cityIndex1, cityIndex2) ==
    LET dx == CityAt(g, cityIndex1).x - CityAt(g, cityIndex2).x
        dy == CityAt(g, cityIndex1).y - CityAt(g, cityIndex2).y
    IN  sqrtInt(dx * dx + dy * dy)

\* astarRelax that records the scores and not the parent.
astarRelax_NoParent(g, st, u, edge, destIndex) ==
    LET v == findCityIndex(g, edge.destCityID)
        tentative_gScore == AddInt(st.gScore[u + 1], edge.distance)
        st1 == [st EXCEPT !.overflow =
                   @ \/ Overflows(st.gScore[u + 1], edge.distance)]
    IN  IF tentative_gScore < st.gScore[v + 1]
        THEN LET f == tentative_gScore + heuristic(g, v, destIndex)
             IN  [st1 EXCEPT !.gScore[v + 1] = tentative_gScore,
                            !.fScore[v + 1] = f,
                            !.h = IF st.h.pos[edge.destCityID] = -1
                                  THEN insertHeap(st.h, edge.destCityID,
                                                  tentative_gScore, f)
                                  ELSE decreaseKey(st.h, edge.destCityID,
                                                   tentative_gScore, f)]
        ELSE st1

\* The body of while (edge): one relaxation from the city in slot u.
\* overflow records that gScore[u] + edge->distance left the range of int.
astarRelax(g, st, u, edge, destIndex) ==
    LET v == findCityIndex(g, edge.destCityID)
        tentative_gScore == AddInt(st.gScore[u + 1], edge.distance)
        st1 == [st EXCEPT !.overflow =
                   @ \/ Overflows(st.gScore[u + 1], edge.distance)]
    IN  IF tentative_gScore < st.gScore[v + 1]
        THEN LET f == tentative_gScore + heuristic(g, v, destIndex)
             IN  [st1 EXCEPT !.parent[v + 1] = u,
                            !.gScore[v + 1] = tentative_gScore,
                            !.fScore[v + 1] = f,
                            !.h = IF st.h.pos[edge.destCityID] = -1
                                  THEN insertHeap(st.h, edge.destCityID,
                                                  tentative_gScore, f)
                                  ELSE decreaseKey(st.h, edge.destCityID,
                                                   tentative_gScore, f)]
        ELSE st1

RECURSIVE astarEdges(_, _, _, _, _, _)
astarEdges(g, st, u, adjList, k, destIndex) ==
    IF k > Len(adjList)
    THEN st
    ELSE astarEdges(g, astarRelax(g, st, u, adjList[k], destIndex),
                    u, adjList, k + 1, destIndex)

\* One iteration of while (!isHeapEmpty(h)).
astarIterate(g, st, destIndex) ==
    IF isHeapEmpty(st.h)
    THEN [st EXCEPT !.running = FALSE]
    ELSE LET e   == extractMin(st.h)
             u   == findCityIndex(g, e.node.cityID)
             st1 == [st EXCEPT !.h = e.heap]
         IN  IF u = destIndex
             THEN [st1 EXCEPT !.running = FALSE]
             ELSE astarEdges(g, st1, u, CityAt(g, u).adjList, 1, destIndex)

RECURSIVE astarLoop(_, _, _)
astarLoop(g, st, destIndex) ==
    IF st.running
    THEN astarLoop(g, astarIterate(g, st, destIndex), destIndex)
    ELSE st

\* gScore, fScore, parent and the heap before the main loop.
astarStart(g, srcIndex, destIndex) ==
    LET f0 == heuristic(g, srcIndex, destIndex)
    IN  [gScore  |-> [i \in 1..numCities(g) |-> IF i = srcIndex + 1 THEN 0 ELSE INF],
         fScore  |-> [i \in 1..numCities(g) |-> IF i = srcIndex + 1 THEN f0 ELSE INF],
         parent  |-> [i \in 1..numCities(g) |-> -1],
         h       |-> insertHeap(createMinHeap(numCities(g)),
                                CityAt(g, srcIndex).cityID, 0, f0),
         running |-> TRUE,
         overflow |-> FALSE]

\* The PathResult built after the main loop.
astarFinish(g, st, destIndex) ==
    IF st.gScore[destIndex + 1] = INF
    THEN createPathResult(numCities(g))
    ELSE reversePath(tracePath(g, st.parent,
                               [createPathResult(numCities(g))
                                   EXCEPT !.totalDistance = st.gScore[destIndex + 1]],
                               destIndex))

astar(g, sourceCityID, destCityID) ==
    LET srcIndex  == findCityIndex(g, sourceCityID)
        destIndex == findCityIndex(g, destCityID)
    IN  IF srcIndex = -1 \/ destIndex = -1
        THEN NULL
        ELSE astarFinish(g, astarLoop(g, astarStart(g, srcIndex, destIndex), destIndex),
                         destIndex)

(* ------------------------------------------------------------------ *)
(* The indices of h->pos the two searches use                          *)
(* ------------------------------------------------------------------ *)

\* dijkstra hands the identifier of every city to insertHeap, which writes
\* h->pos[cityID]; extractMin and decreaseKey index h->pos with identifiers
\* among these.
dijkstraPosIndices(g, sourceCityID, destCityID) ==
    IF findCityIndex(g, sourceCityID) = -1 \/ findCityIndex(g, destCityID) = -1
    THEN {}
    ELSE CityIDsOf(g)

\* astar hands the source to insertHeap and reads h->pos[edge->destCityID]
\* for every neighbour it improves, the ones with a parent; extractMin
\* indexes h->pos with identifiers among these. The run is the actual one
\* up to its first index outside the table.
astarPosIndices(g, sourceCityID, destCityID) ==
    LET srcIndex  == findCityIndex(g, sourceCityID)
        destIndex == findCityIndex(g, destCityID)
    IN  IF srcIndex = -1 \/ destIndex = -1
        THEN {}
        ELSE LET st == astarLoop(g, astarStart(g, srcIndex, destIndex), destIndex)
             IN  {sourceCityID} \cup
                 {CityAt(g, v).cityID : v \in {i \in 0..(numCities(g) - 1) :
                                                  st.parent[i + 1] # -1}}

\* What is returned by a call that indexed h->pos outside the table.
Undefined ==
    [ptr |-> "undefined", path |-> <<>>, pathLength |-> 0,
     totalDistance |-> 0, pathCapacity |-> 0]

\* The graph after a call that wrote h->pos[i] outside the table: the
\* write (of -1, by extractMin) missed the graph, or landed on g->capacity,
\* on a coordinate of a city or on the distance of an edge.
Corruptions(g) ==
    {g}
    \cup {[g EXCEPT !.capacity = -1]}
    \cup {[g EXCEPT !.cities[i].x = -1] : i \in 1..numCities(g)}
    \cup {[g EXCEPT !.cities[i].y = -1] : i \in 1..numCities(g)}
    \cup UNION {{[g EXCEPT !.cities[i].adjList[k].distance = -1] :
                    k \in 1..Len(g.cities[i].adjList)} : i \in 1..numCities(g)}

(* ------------------------------------------------------------------ *)
(* BFS and DFS (algorithms.c)                                          *)
(* ------------------------------------------------------------------ *)

\* The traversals print the name of the city in a slot; order holds the
\* identifier of that city. visited[i] is the element i + 1 of the
\* sequence, queue[i] likewise; rear counts the writes to queue, which
\* has numCities slots.

\* bfsVisit with a stack discipline: the city found is the next one taken.
bfsVisit_Lifo(g, st, edge) ==
    LET destIndex == findCityIndex(g, edge.destCityID)
    IN  IF destIndex # -1 /\ st.visited[destIndex + 1] = 0
        THEN [st EXCEPT !.visited[destIndex + 1] = 1,
                        !.queue = SubSeq(st.queue, 1, st.front) \o <<destIndex>>
                                  \o SubSeq(st.queue, st.front + 1, Len(st.queue)),
                        !.rear = st.rear + 1]
        ELSE st

\* The body of while (edge) in BFS.
bfsVisit(g, st, edge) ==
    LET destIndex == findCityIndex(g, edge.destCityID)
    IN  IF destIndex # -1 /\ st.visited[destIndex + 1] = 0
        THEN [st EXCEPT !.visited[destIndex + 1] = 1,
                        !.queue = Append(st.queue, destIndex),
                        !.rear = st.rear + 1]
        ELSE st

RECURSIVE bfsEdges(_, _, _, _)
bfsEdges(g, st, adjList, k) ==
    IF k > Len(adjList)
    THEN st
    ELSE bfsEdges(g, bfsVisit(g, st, adjList[k]), adjList, k + 1)

\* while (front < rear)
RECURSIVE bfsLoop(_, _)
bfsLoop(g, st) ==
    IF st.front < st.rear
    THEN LET current == st.queue[st.front + 1]
             st1 == [st EXCEPT !.front = st.front + 1,
                               !.order = Append(st.order, CityAt(g, current).cityID)]
         IN  bfsLoop(g, bfsEdges(g, st1, CityAt(g, current).adjList, 1))
    ELSE st

\* What BFS prints, and the number of writes to queue.
BFS(g, startCityID) ==
    LET startIndex == findCityIndex(g, startCityID)
    IN  IF startIndex = -1
        THEN [order |-> <<>>, rear |-> 0]
        ELSE LET st == bfsLoop(g,
                          [visited |-> [i \in 1..numCities(g) |->
                                           IF i = startIndex + 1 THEN 1 ELSE 0],
                           queue   |-> <<startIndex>>,
                           front   |-> 0,
                           rear    |-> 1,
                           order   |-> <<>>])
             IN  [order |-> st.order, rear |-> st.rear]

\* DFSUtil, and its loop over the adjacency list from the k-th edge on.
RECURSIVE DFSUtil(_, _, _)
RECURSIVE dfsEdges(_, _, _, _)

\* DFSUtil printing the city after the cities found from it.
DFSUtil_PostOrder(g, cityIndex, st) ==
    LET done == dfsEdges(g, [st EXCEPT !.visited[cityIndex + 1] = 1],
                         CityAt(g, cityIndex).adjList, 1)
    IN  [done EXCEPT !.order = Append(done.order, CityAt(g, cityIndex).cityID)]

DFSUtil(g, cityIndex, st) ==
    dfsEdges(g,
             [st EXCEPT !.visited[cityIndex + 1] = 1,
                        !.order = Append(st.order, CityAt(g, cityIndex).cityID)],
             CityAt(g, cityIndex).adjList, 1)

dfsEdges(g, st, adjList, k) ==
    IF k > Len(adjList)
    THEN st
    ELSE LET destIndex == findCityIndex(g, adjList[k].destCityID)
         IN  dfsEdges(g,
                      IF destIndex # -1 /\ st.visited[destIndex + 1] = 0
                      THEN DFSUtil(g, destIndex, st)
                      ELSE st,
                      adjList, k + 1)

\* What DFS prints.
DFS(g, startCityID) ==
    LET startIndex == findCityIndex(g, startCityID)
    IN  IF startIndex = -1
        THEN [order |-> <<>>, rear |-> 0]
        ELSE [order |-> DFSUtil(g, startIndex,
                                [visited |-> [i \in 1..numCities(g) |-> 0],
                                 order   |-> <<>>]).order,
              rear  |-> 0]

(* ------------------------------------------------------------------ *)
(* State                                                               *)
(* ------------------------------------------------------------------ *)

VARIABLES
    heap,        \* the MinHeap driven by SpecHeap and SpecHeapCaller
    lastScore,   \* SpecHeapCaller: per identifier that is not resident, the
                 \* fScore it was last stored with (INF: never inserted)
    graph,       \* the Graph
    last,        \* the last call on the graph: its name, the identifier
                 \* handed to addCity or deleteCity, the value returned
    result,      \* handleFastNavigation: the algorithm chosen, the two
                 \* identifiers entered and the PathResult* it holds
    traversal    \* what the last handler printed if it was
                 \* handleAnalysisMode: the traversal chosen, the
                 \* identifier entered, the cities printed in order

vars == <<heap, lastScore, graph, last, result, traversal>>

\* handleFastNavigation holds no PathResult outside its body.
NoResult ==
    [alg |-> "none", sourceCityID |-> -1, destCityID |-> -1, ret |-> NULL]

\* The last handler printed no traversal.
NoTraversal ==
    [alg |-> "none", startCityID |-> -1, order |-> <<>>, rear |-> 0]

\* The graph and the call record while only the heap is driven.
GraphIdle ==
    /\ graph = createGraph(InitialCapacity)
    /\ last = [op |-> "createGraph", id |-> -1, ret |-> 1]
    /\ result = NoResult
    /\ traversal = NoTraversal

\* The heap while only the graph is driven.
HeapIdle ==
    /\ heap = createMinHeap(0)
    /\ lastScore = <<>>

(* ------------------------------------------------------------------ *)
(* SpecHeap: any sequence of insertHeap, extractMin, decreaseKey       *)
(* on identifiers inside the position table, none inserted while it is *)
(* resident. The distance handed over is the fScore, as dijkstra hands *)
(* them; the heap never reads it.                                      *)
(* ------------------------------------------------------------------ *)

HeapIDs == 0..MaxHeapID
Scores == 0..MaxScore

HeapInit ==
    /\ heap = createMinHeap(HeapCapacity)
    /\ lastScore = [id \in HeapIDs |-> INF]
    /\ GraphIdle

\* No identifier is inserted while it is resident.
CallInsertHeap(cityID, distance, fScore) ==
    /\ ~Resident(heap, cityID)
    /\ heap' = insertHeap(heap, cityID, distance, fScore)

CallExtractMin ==
    heap' = extractMin(heap).heap

\* The caller never gives a score larger than the one stored in the node
\* that holds the identifier.
CallDecreaseKey(cityID, newDist, newFScore) ==
    /\ \A i \in 0..(heap.size - 1) :
          heap.nodes[i].cityID = cityID => newFScore <= heap.nodes[i].fScore
    /\ heap' = decreaseKey(heap, cityID, newDist, newFScore)

HeapInsert ==
    /\ \E id \in HeapIDs, f \in Scores : CallInsertHeap(id, f, f)
    /\ UNCHANGED <<lastScore, graph, last, result, traversal>>

HeapExtractMin ==
    /\ CallExtractMin
    /\ UNCHANGED <<lastScore, graph, last, result, traversal>>

HeapDecreaseKey ==
    /\ \E id \in HeapIDs, f \in Scores : CallDecreaseKey(id, f, f)
    /\ UNCHANGED <<lastScore, graph, last, result, traversal>>

HeapNext ==
    \/ HeapInsert
    \/ HeapExtractMin
    \/ HeapDecreaseKey

SpecHeap == HeapInit /\ [][HeapNext]_vars

(* ------------------------------------------------------------------ *)
(* SpecHeapCaller: SpecHeap with a caller that remembers the fScore an *)
(* identifier was last stored with and never hands decreaseKey a       *)
(* larger one, whether the identifier is resident or not.              *)
(* ------------------------------------------------------------------ *)

\* An insertHeap on a full heap stores nothing.
CallerInsert ==
    \E id \in HeapIDs, f \in Scores :
        /\ CallInsertHeap(id, f, f)
        /\ lastScore' = IF heap.size >= heap.capacity
                        THEN lastScore
                        ELSE [lastScore EXCEPT ![id] = INF]
        /\ UNCHANGED <<graph, last, result, traversal>>

CallerExtractMin ==
    /\ CallExtractMin
    /\ lastScore' = IF isHeapEmpty(heap)
                    THEN lastScore
                    ELSE [lastScore EXCEPT ![heap.nodes[0].cityID] = heap.nodes[0].fScore]
    /\ UNCHANGED <<graph, last, result, traversal>>

CallerDecreaseKey ==
    \E id \in HeapIDs, f \in Scores :
        /\ f <= lastScore[id]
        /\ CallDecreaseKey(id, f, f)
        /\ lastScore' = IF Resident(heap, id)
                        THEN lastScore
                        ELSE [lastScore EXCEPT ![id] = f]
        /\ UNCHANGED <<graph, last, result, traversal>>

CallerNext ==
    \/ CallerInsert
    \/ CallerExtractMin
    \/ CallerDecreaseKey

SpecHeapCaller == HeapInit /\ [][CallerNext]_vars

(* ------------------------------------------------------------------ *)
(* SpecGraph: any sequence of addCity, deleteCity, addRoad, removeRoad *)
(* and sortCitiesByName on the graph main creates.                     *)
(* ------------------------------------------------------------------ *)

\* The distances the caller hands to addRoad; 0 is not a valid one.
Distances == {0, 1, 2}

GraphInit ==
    /\ GraphIdle
    /\ HeapIdle

AddCity ==
    /\ numCities(graph) < MaxCities
    /\ \E c \in CityRecords :
        LET r == addCity(graph, c.cityID, c.cityName, c.x, c.y)
        IN  /\ graph' = r.graph
            /\ last' = [op |-> "addCity", id |-> c.cityID, ret |-> r.ret]
            /\ UNCHANGED <<heap, lastScore, result, traversal>>

DeleteCity ==
    \E id \in CityIDs :
        LET r == deleteCity(graph, id)
        IN  /\ graph' = r.graph
            /\ last' = [op |-> "deleteCity", id |-> id, ret |-> r.ret]
            /\ UNCHANGED <<heap, lastScore, result, traversal>>

AddRoad ==
    /\ numRoads(graph) < MaxRoads
    /\ \E from \in CityIDs, to \in CityIDs, distance \in Distances :
        LET r == addRoad(graph, from, to, distance)
        IN  /\ graph' = r.graph
            /\ last' = [op |-> "addRoad", id |-> -1, ret |-> r.ret]
            /\ UNCHANGED <<heap, lastScore, result, traversal>>

RemoveRoad ==
    \E from \in CityIDs, to \in CityIDs :
        LET r == removeRoad(graph, from, to)
        IN  /\ graph' = r.graph
            /\ last' = [op |-> "removeRoad", id |-> -1, ret |-> r.ret]
            /\ UNCHANGED <<heap, lastScore, result, traversal>>

SortCitiesByName ==
    /\ graph' = sortCitiesByName(graph)
    /\ last' = [op |-> "sortCitiesByName", id |-> -1, ret |-> 1]
    /\ UNCHANGED <<heap, lastScore, result, traversal>>

GraphNext ==
    \/ AddCity
    \/ DeleteCity
    \/ AddRoad
    \/ RemoveRoad
    \/ SortCitiesByName

SpecGraph == GraphInit /\ [][GraphNext]_vars

(* ------------------------------------------------------------------ *)
(* SpecPath: handleFastNavigation on the graphs built by addCity and   *)
(* addRoad. Cities are added in the order PathCityOrder, so that no    *)
(* identifier is its own slot index; roads join distinct cities and    *)
(* are added in increasing order of (from, to).                        *)
(* ------------------------------------------------------------------ *)

PathCityOrder == <<2, 0, 3, 1>>

\* The distances handed to addRoad.
PathWeights == {1, 3, 999998}

\* The roads between two distinct cities of the graph.
PathRoads(g) ==
    {r \in [from : CityIDsOf(g), to : CityIDsOf(g), distance : PathWeights] :
        r.from # r.to}

RoadRank(fromCityID, toCityID) ==
    fromCityID * Len(PathCityOrder) + toCityID

\* Every road of the graph was added before a road of this rank is.
AddedInOrder(g, rank) ==
    \A i \in 1..numCities(g) :
        \A k \in 1..Len(g.cities[i].adjList) :
            RoadRank(g.cities[i].cityID, g.cities[i].adjList[k].destCityID) < rank

PathAddCity ==
    /\ result.alg = "none"
    /\ numCities(graph) < Len(PathCityOrder)
    /\ LET c == CHOOSE r \in PathCityRecords :
                    r.cityID = PathCityOrder[numCities(graph) + 1]
           r == addCity(graph, c.cityID, c.cityName, c.x, c.y)
       IN  /\ graph' = r.graph
           /\ last' = [op |-> "addCity", id |-> c.cityID, ret |-> r.ret]
    /\ UNCHANGED <<heap, lastScore, result, traversal>>

PathAddRoad ==
    /\ result.alg = "none"
    /\ numRoads(graph) < MaxPathRoads
    /\ \E road \in PathRoads(graph) :
          /\ AddedInOrder(graph, RoadRank(road.from, road.to))
          /\ LET r == addRoad(graph, road.from, road.to, road.distance)
             IN  /\ graph' = r.graph
                 /\ last' = [op |-> "addRoad", id |-> -1, ret |-> r.ret]
    /\ UNCHANGED <<heap, lastScore, result, traversal>>

\* handleFastNavigation up to the call: result = dijkstra(g, sourceID, destID)
Dijkstra ==
    /\ result.alg = "none"
    /\ \E sourceID \in CityIDs, destID \in CityIDs :
          result' = [alg |-> "dijkstra", sourceCityID |-> sourceID,
                     destCityID |-> destID,
                     ret |-> dijkstra(graph, sourceID, destID)]
    /\ UNCHANGED <<heap, lastScore, graph, last, traversal>>

\* handleFastNavigation up to the call: result = astar(g, sourceID, destID)
Astar ==
    /\ result.alg = "none"
    /\ \E sourceID \in CityIDs, destID \in CityIDs :
          result' = [alg |-> "astar", sourceCityID |-> sourceID,
                     destCityID |-> destID,
                     ret |-> astar(graph, sourceID, destID)]
    /\ UNCHANGED <<heap, lastScore, graph, last, traversal>>

\* handleFastNavigation from the call on: the path is displayed and
\* freePathResult(result) ends the handler.
FreePathResult ==
    /\ result.alg # "none"
    /\ result' = NoResult
    /\ UNCHANGED <<heap, lastScore, graph, last, traversal>>

PathNext ==
    \/ PathAddCity
    \/ PathAddRoad
    \/ Dijkstra
    \/ Astar
    \/ FreePathResult

SpecPath == GraphInit /\ [][PathNext]_vars

(* ------------------------------------------------------------------ *)
(* SpecRoad: addRoad and removeRoad with any identifiers and distances *)
(* while the cities of CityRecords but one are added in the order      *)
(* RoadCityOrder; the call record keeps the arguments of the call.     *)
(* ------------------------------------------------------------------ *)

RoadCityOrder == <<2, 0, 3>>

RoadAddCity ==
    /\ numCities(graph) < Len(RoadCityOrder)
    /\ LET c == CHOOSE r \in CityRecords :
                    r.cityID = RoadCityOrder[numCities(graph) + 1]
           r == addCity(graph, c.cityID, c.cityName, c.x, c.y)
       IN  /\ graph' = r.graph
           /\ last' = [op |-> "addCity", id |-> c.cityID, ret |-> r.ret,
                       from |-> -1, to |-> -1, distance |-> -1]
    /\ UNCHANGED <<heap, lastScore, result, traversal>>

\* An addRoad that adds a road is called while there are fewer than
\* MaxRoads roads.
RoadAddRoad ==
    \E from \in CityIDs, to \in CityIDs, distance \in Distances :
        LET r == addRoad(graph, from, to, distance)
        IN  /\ numRoads(r.graph) <= MaxRoads
            /\ graph' = r.graph
            /\ last' = [op |-> "addRoad", id |-> -1, ret |-> r.ret,
                        from |-> from, to |-> to, distance |-> distance]
            /\ UNCHANGED <<heap, lastScore, result, traversal>>

RoadRemoveRoad ==
    \E from \in CityIDs, to \in CityIDs :
        LET r == removeRoad(graph, from, to)
        IN  /\ graph' = r.graph
            /\ last' = [op |-> "removeRoad", id |-> -1, ret |-> r.ret,
                        from |-> from, to |-> to, distance |-> -1]
            /\ UNCHANGED <<heap, lastScore, result, traversal>>

RoadNext ==
    \/ RoadAddCity
    \/ RoadAddRoad
    \/ RoadRemoveRoad

SpecRoad == GraphInit /\ [][RoadNext]_vars

(* ------------------------------------------------------------------ *)
(* SpecExample: handleFastNavigation while the example graph is built: *)
(* the cities A(0,0), B(0,3), C(4,0), D(4,3), then the roads A->B(3),  *)
(* A->C(4), B->D(4), C->D(3), in that order.                           *)
(* ------------------------------------------------------------------ *)

\* A, B, C, D with the identifiers 0, 1, 2, 3.
ExampleCities ==
    << [cityID |-> 0, cityName |-> <<65>>, x |-> 0, y |-> 0],
       [cityID |-> 1, cityName |-> <<66>>, x |-> 0, y |-> 3],
       [cityID |-> 2, cityName |-> <<67>>, x |-> 4, y |-> 0],
       [cityID |-> 3, cityName |-> <<68>>, x |-> 4, y |-> 3] >>

ExampleRoads ==
    << [from |-> 0, to |-> 1, distance |-> 3],
       [from |-> 0, to |-> 2, distance |-> 4],
       [from |-> 1, to |-> 3, distance |-> 4],
       [from |-> 2, to |-> 3, distance |-> 3] >>

ExampleAddCity ==
    /\ result.alg = "none"
    /\ numCities(graph) < Len(ExampleCities)
    /\ LET c == ExampleCities[numCities(graph) + 1]
           r == addCity(graph, c.cityID, c.cityName, c.x, c.y)
       IN  /\ graph' = r.graph
           /\ last' = [op |-> "addCity", id |-> c.cityID, ret |-> r.ret]
    /\ UNCHANGED <<heap, lastScore, result, traversal>>

ExampleAddRoad ==
    /\ result.alg = "none"
    /\ numCities(graph) = Len(ExampleCities)
    /\ numRoads(graph) < Len(ExampleRoads)
    /\ LET road == ExampleRoads[numRoads(graph) + 1]
           r == addRoad(graph, road.from, road.to, road.distance)
       IN  /\ graph' = r.graph
           /\ last' = [op |-> "addRoad", id |-> -1, ret |-> r.ret]
    /\ UNCHANGED <<heap, lastScore, result, traversal>>

ExampleNext ==
    \/ ExampleAddCity
    \/ ExampleAddRoad
    \/ Dijkstra
    \/ Astar
    \/ FreePathResult

SpecExample == GraphInit /\ [][ExampleNext]_vars

(* ------------------------------------------------------------------ *)
(* SpecTraverse: handleAnalysisMode on the graphs built by addCity and *)
(* addRoad. Cities are added in the order PathCityOrder; roads of      *)
(* distance 1 are added in any order, from a city to itself included.  *)
(* ------------------------------------------------------------------ *)

TraverseAddCity ==
    /\ numCities(graph) < Len(PathCityOrder)
    /\ LET c == CHOOSE r \in CityRecords :
                    r.cityID = PathCityOrder[numCities(graph) + 1]
           r == addCity(graph, c.cityID, c.cityName, c.x, c.y)
       IN  /\ graph' = r.graph
           /\ last' = [op |-> "addCity", id |-> c.cityID, ret |-> r.ret]
    /\ traversal' = NoTraversal
    /\ UNCHANGED <<heap, lastScore, result>>

TraverseAddRoad ==
    /\ numRoads(graph) < MaxTraverseRoads
    /\ \E from \in CityIDsOf(graph), to \in CityIDsOf(graph) :
          LET r == addRoad(graph, from, to, 1)
          IN  /\ graph' = r.graph
              /\ last' = [op |-> "addRoad", id |-> -1, ret |-> r.ret]
    /\ traversal' = NoTraversal
    /\ UNCHANGED <<heap, lastScore, result>>

\* handleAnalysisMode, choice 1
TraverseBFS ==
    /\ \E cityID \in CityIDs :
          LET t == BFS(graph, cityID)
          IN  traversal' = [alg |-> "BFS", startCityID |-> cityID,
                            order |-> t.order, rear |-> t.rear]
    /\ UNCHANGED <<heap, lastScore, graph, last, result>>

\* handleAnalysisMode, choice 2
TraverseDFS ==
    /\ \E cityID \in CityIDs :
          LET t == DFS(graph, cityID)
          IN  traversal' = [alg |-> "DFS", startCityID |-> cityID,
                            order |-> t.order, rear |-> t.rear]
    /\ UNCHANGED <<heap, lastScore, graph, last, result>>

TraverseNext ==
    \/ TraverseAddCity
    \/ TraverseAddRoad
    \/ TraverseBFS
    \/ TraverseDFS

SpecTraverse == GraphInit /\ [][TraverseNext]_vars

(* ------------------------------------------------------------------ *)
(* SpecSift: the heap operations on a heap of SiftCapacity slots, the  *)
(* identifiers being those of the cities, so that a root with two      *)
(* children is sifted down.                                            *)
(* ------------------------------------------------------------------ *)

SiftInit ==
    /\ heap = createMinHeap(SiftCapacity)
    /\ lastScore = [id \in HeapIDs |-> INF]
    /\ GraphIdle

SiftInsert ==
    /\ \E id \in CityIDs, f \in Scores : CallInsertHeap(id, f, f)
    /\ UNCHANGED <<lastScore, graph, last, result, traversal>>

SiftExtractMin ==
    /\ CallExtractMin
    /\ UNCHANGED <<lastScore, graph, last, result, traversal>>

SiftDecreaseKey ==
    /\ \E id \in CityIDs, f \in Scores : CallDecreaseKey(id, f, f)
    /\ UNCHANGED <<lastScore, graph, last, result, traversal>>

SiftNext ==
    \/ SiftInsert
    \/ SiftExtractMin
    \/ SiftDecreaseKey

SpecSift == SiftInit /\ [][SiftNext]_vars

(* ------------------------------------------------------------------ *)
(* SpecRange: the searches and traversals on graphs whose cities have  *)
(* any identifier addCity accepts. A search that indexes h->pos        *)
(* outside the table has undefined behaviour: any of the outcomes      *)
(* above, after which nothing is known of the program.                 *)
(* ------------------------------------------------------------------ *)

RangeAddCity ==
    /\ result.alg = "none"
    /\ numCities(graph) < MaxCities
    /\ \E c \in RangeCityRecords :
          LET r == addCity(graph, c.cityID, c.cityName, c.x, c.y)
          IN  /\ graph' = r.graph
              /\ last' = [op |-> "addCity", id |-> c.cityID, ret |-> r.ret]
    /\ traversal' = NoTraversal
    /\ UNCHANGED <<heap, lastScore, result>>

RangeAddRoad ==
    /\ result.alg = "none"
    /\ numRoads(graph) < MaxRoads
    /\ \E from \in CityIDsOf(graph), to \in CityIDsOf(graph) :
          LET r == addRoad(graph, from, to, 1)
          IN  /\ graph' = r.graph
              /\ last' = [op |-> "addRoad", id |-> -1, ret |-> r.ret]
    /\ traversal' = NoTraversal
    /\ UNCHANGED <<heap, lastScore, result>>

RangeDijkstra ==
    /\ result.alg = "none"
    /\ \E sourceID \in RangeCityIDs, destID \in RangeCityIDs :
          LET indices == dijkstraPosIndices(graph, sourceID, destID)
          IN  IF \A i \in indices : InTable(i)
              THEN /\ result' = [alg |-> "dijkstra", sourceCityID |-> sourceID,
                                 destCityID |-> destID, indices |-> indices,
                                 ret |-> dijkstra(graph, sourceID, destID)]
                   /\ graph' = graph
              ELSE /\ result' = [alg |-> "dijkstra", sourceCityID |-> sourceID,
                                 destCityID |-> destID, indices |-> indices,
                                 ret |-> Undefined]
                   /\ graph' \in Corruptions(graph)
    /\ traversal' = NoTraversal
    /\ UNCHANGED <<heap, lastScore, last>>

RangeAstar ==
    /\ result.alg = "none"
    /\ \E sourceID \in RangeCityIDs, destID \in RangeCityIDs :
          LET indices == astarPosIndices(graph, sourceID, destID)
          IN  IF \A i \in indices : InTable(i)
              THEN /\ result' = [alg |-> "astar", sourceCityID |-> sourceID,
                                 destCityID |-> destID, indices |-> indices,
                                 ret |-> astar(graph, sourceID, destID)]
                   /\ graph' = graph
              ELSE /\ result' = [alg |-> "astar", sourceCityID |-> sourceID,
                                 destCityID |-> destID, indices |-> indices,
                                 ret |-> Undefined]
                   /\ graph' \in Corruptions(graph)
    /\ traversal' = NoTraversal
    /\ UNCHANGED <<heap, lastScore, last>>

RangeBFS ==
    /\ result.alg = "none"
    /\ \E cityID \in RangeCityIDs :
          LET t == BFS(graph, cityID)
          IN  traversal' = [alg |-> "BFS", startCityID |-> cityID,
                            order |-> t.order, rear |-> t.rear]
    /\ UNCHANGED <<heap, lastScore, graph, last, result>>

RangeDFS ==
    /\ result.alg = "none"
    /\ \E cityID \in RangeCityIDs :
          LET t == DFS(graph, cityID)
          IN  traversal' = [alg |-> "DFS", startCityID |-> cityID,
                            order |-> t.order, rear |-> t.rear]
    /\ UNCHANGED <<heap, lastScore, graph, last, result>>

\* handleFastNavigation after a call that returned.
RangeFreePathResult ==
    /\ result.alg # "none"
    /\ result.ret # Undefined
    /\ result' = NoResult
    /\ UNCHANGED <<heap, lastScore, graph, last, traversal>>

RangeNext ==
    \/ RangeAddCity
    \/ RangeAddRoad
    \/ RangeDijkstra
    \/ RangeAstar
    \/ RangeBFS
    \/ RangeDFS
    \/ RangeFreePathResult

SpecRange == GraphInit /\ [][RangeNext]_vars

(* ------------------------------------------------------------------ *)
(* SpecSearch: dijkstra and astar run one iteration of their main loop *)
(* at a time, on the cities of SpecPath joined by roads of any         *)
(* distance addRoad accepts, the largest int included. result holds    *)
(* the locals of the call (st) next to what handleFastNavigation       *)
(* holds. An addition that overflows is undefined behaviour: the call  *)
(* goes on with the sum modulo 2^32, or it traps.                      *)
(* ------------------------------------------------------------------ *)

\* The distances handed to addRoad.
SearchWeights == {1, 3, IntMax}

\* The roads between two cities of the graph, from a city to itself
\* included.
SearchRoads(g) ==
    [from : CityIDsOf(g), to : CityIDsOf(g), distance : SearchWeights]

SearchAddRoad ==
    /\ result.alg = "none"
    /\ numRoads(graph) < MaxSearchRoads
    /\ \E road \in SearchRoads(graph) :
          /\ AddedInOrder(graph, RoadRank(road.from, road.to))
          /\ LET r == addRoad(graph, road.from, road.to, road.distance)
             IN  /\ graph' = r.graph
                 /\ last' = [op |-> "addRoad", id |-> -1, ret |-> r.ret]
    /\ UNCHANGED <<heap, lastScore, result, traversal>>

\* The locals of a call that returned before it allocated them.
NoLocals ==
    [running |-> FALSE, overflow |-> FALSE]

\* The call up to its main loop.
SearchStart ==
    /\ result.alg = "none"
    /\ \E alg \in {"dijkstra", "astar"}, sourceID \in CityIDs, destID \in CityIDs :
          LET srcIndex  == findCityIndex(graph, sourceID)
              destIndex == findCityIndex(graph, destID)
          IN  result' =
                 IF srcIndex = -1 \/ destIndex = -1
                 THEN [alg |-> alg, sourceCityID |-> sourceID, destCityID |-> destID,
                       ret |-> NULL, pc |-> "done", st |-> NoLocals,
                       extractions |-> 0]
                 ELSE [alg |-> alg, sourceCityID |-> sourceID, destCityID |-> destID,
                       ret |-> NULL, pc |-> "loop",
                       st |-> IF alg = "dijkstra"
                              THEN dijkstraStart(graph, srcIndex)
                              ELSE astarStart(graph, srcIndex, destIndex),
                       extractions |-> 0]
    /\ UNCHANGED <<heap, lastScore, graph, last, traversal>>

\* One iteration of while (!isHeapEmpty(h)), or the test that leaves it.
SearchIterate ==
    /\ result.alg # "none"
    /\ result.pc = "loop"
    /\ result.st.running
    /\ result.extractions < MaxIterations
    /\ LET destIndex == findCityIndex(graph, result.destCityID)
           st2 == IF result.alg = "dijkstra"
                  THEN dijkstraIterate(graph, result.st, destIndex)
                  ELSE astarIterate(graph, result.st, destIndex)
           wraps == [result EXCEPT
                        !.st = st2,
                        !.extractions = IF isHeapEmpty(result.st.h) THEN @ ELSE @ + 1]
       IN  IF st2.overflow /\ ~result.st.overflow
           THEN \/ result' = wraps
                \/ result' = [result EXCEPT !.pc = "trapped"]
           ELSE result' = wraps
    /\ UNCHANGED <<heap, lastScore, graph, last, traversal>>

\* The call from the end of its main loop to its return.
SearchFinish ==
    /\ result.alg # "none"
    /\ result.pc = "loop"
    /\ ~result.st.running
    /\ LET destIndex == findCityIndex(graph, result.destCityID)
           ret == IF result.alg = "dijkstra"
                  THEN dijkstraFinish(graph, result.st, destIndex)
                  ELSE astarFinish(graph, result.st, destIndex)
       IN  result' = [result EXCEPT
                        !.ret = ret,
                        !.pc = IF ret = NeverReturns THEN "never returns" ELSE "done"]
    /\ UNCHANGED <<heap, lastScore, graph, last, traversal>>

\* handleFastNavigation after the call returned.
SearchFreePathResult ==
    /\ result.alg # "none"
    /\ result.pc = "done"
    /\ result' = NoResult
    /\ UNCHANGED <<heap, lastScore, graph, last, traversal>>

SearchNext ==
    \/ PathAddCity
    \/ SearchAddRoad
    \/ SearchStart
    \/ SearchIterate
    \/ SearchFinish
    \/ SearchFreePathResult

SpecSearch == GraphInit /\ [][SearchNext]_vars

(* ------------------------------------------------------------------ *)
(* Properties                                                          *)
(* ------------------------------------------------------------------ *)

\* C5: after any sequence of insertHeap, extractMin and decreaseKey calls
\* (decreaseKey on identifiers that are not resident included, never with a
\* score larger than the stored one) every non-root node's parent has an
\* fScore not larger than the node's.
C5_HeapOrder ==
    \A i \in 1..(heap.size - 1) :
        heap.nodes[(i - 1) \div 2].fScore <= heap.nodes[i].fScore

\* C6: when no identifier is inserted while resident, the position table
\* names the slot of every identifier held in slots 0..size-1.
C6_PosAgrees ==
    \A i \in 0..(heap.size - 1) : heap.pos[heap.nodes[i].cityID] = i

\* An extractMin on three nodes moved the last node to the root and
\* minHeapify moved it down to slot 1.
C6_Witness ==
    /\ heap.size = 2
    /\ heap.nodes[2].cityID >= 0
    /\ heap.nodes[1].cityID = heap.nodes[2].cityID
    /\ heap.pos[heap.nodes[1].cityID] = 1

\* C7: the position table holds -1 for every identifier that is not
\* resident, the one extracted from a heap of one node included.
C7_NonResidentSentinel ==
    \A id \in HeapIDs : ~Resident(heap, id) => heap.pos[id] = -1

\* No edge of the graph g targets cityID.
NoEdgeTo(g, cityID) ==
    \A i \in 1..numCities(g) :
        \A k \in 1..Len(g.cities[i].adjList) :
            g.cities[i].adjList[k].destCityID # cityID

\* C8: after a successful deleteCity(x) no edge targets x, findCityIndex(x)
\* is -1 and the graph holds one city less than before.
C8_DeleteCascade ==
    [][(last'.op = "deleteCity" /\ last'.ret = 1) =>
          /\ NoEdgeTo(graph', last'.id)
          /\ findCityIndex(graph', last'.id) = -1
          /\ numCities(graph') = numCities(graph) - 1]_vars

\* A deleteCity succeeded and left at least two cities.
C8_Witness ==
    /\ last.op = "deleteCity"
    /\ last.ret = 1
    /\ numCities(graph) >= 2

\* C9: every edge targets the identifier of a city of the graph.
C9_NoDanglingEdge ==
    \A i \in 1..numCities(graph) :
        \A k \in 1..Len(graph.cities[i].adjList) :
            graph.cities[i].adjList[k].destCityID \in CityIDsOf(graph)

\* A deleteCity succeeded and left a road.
C9_Witness ==
    /\ last.op = "deleteCity"
    /\ last.ret = 1
    /\ numRoads(graph) >= 1

\* C10: no two slots hold the same cityID, and an addCity with an
\* identifier already present returns 0 and leaves the graph as it was.
C10_UniqueIDs ==
    [][/\ \A i, j \in 1..numCities(graph') :
              graph'.cities[i].cityID = graph'.cities[j].cityID => i = j
       /\ (last'.op = "addCity" /\ last'.id \in CityIDsOf(graph)) =>
              (last'.ret = 0 /\ graph' = graph)]_vars

\* An addCity was refused on a graph of at least two cities and a road.
C10_Witness ==
    /\ last.op = "addCity"
    /\ last.ret = 0
    /\ numCities(graph) >= 2
    /\ numRoads(graph) >= 1

(* ------------------------------------------------------------------ *)
(* Properties of the shortest-path algorithms                          *)
(* ------------------------------------------------------------------ *)

\* The weight of the road from one identifier to another; 0: no such road.
EdgeWeight(g, fromCityID, toCityID) ==
    LET adjList == CityAt(g, findCityIndex(g, fromCityID)).adjList
        k == firstEdgeTo(adjList, toCityID)
    IN  IF k = 0 THEN 0 ELSE adjList[k].distance

\* The sequences without repetition of elements of the set S.
RECURSIVE Arrangements(_)
Arrangements(S) ==
    {<<>>} \cup UNION {{<<x>> \o t : t \in Arrangements(S \ {x})} : x \in S}

\* The sum of the weights of the roads path[i] -> path[i + 1], ...
RECURSIVE PathWeight(_, _, _)
PathWeight(g, path, i) ==
    IF i >= Len(path)
    THEN 0
    ELSE EdgeWeight(g, path[i], path[i + 1]) + PathWeight(g, path, i + 1)

\* The directed paths of the graph from one city to another that visit no
\* city twice; with positive weights a lightest path is among them.
SimplePaths(g, sourceCityID, destCityID) ==
    IF sourceCityID = destCityID
    THEN {<<sourceCityID>>}
    ELSE {p \in {<<sourceCityID>> \o m \o <<destCityID>> :
                    m \in Arrangements(CityIDsOf(g) \ {sourceCityID, destCityID})} :
             \A i \in 1..(Len(p) - 1) : EdgeWeight(g, p[i], p[i + 1]) > 0}

PathExists(g, sourceCityID, destCityID) ==
    SimplePaths(g, sourceCityID, destCityID) # {}

\* The least sum of edge weights over the directed paths between two
\* cities of the graph that a directed path joins.
MinPathWeight(g, sourceCityID, destCityID) ==
    LET weights == {PathWeight(g, p, 1) : p \in SimplePaths(g, sourceCityID, destCityID)}
    IN  CHOOSE m \in weights : \A x \in weights : m <= x

\* The path of pr leads from sourceCityID to destCityID along roads of g
\* whose weights sum to pr.totalDistance.
WellFormedPath(g, pr, sourceCityID, destCityID) ==
    /\ Len(pr.path) = pr.pathLength
    /\ pr.path[1] = sourceCityID
    /\ pr.path[pr.pathLength] = destCityID
    /\ \A i \in 1..(pr.pathLength - 1) :
          /\ pr.path[i] \in CityIDsOf(g)
          /\ EdgeWeight(g, pr.path[i], pr.path[i + 1]) > 0
    /\ PathWeight(g, pr.path, 1) = pr.totalDistance

\* Both identifiers of the query are cities of the graph.
BothExist ==
    /\ result.sourceCityID \in CityIDsOf(graph)
    /\ result.destCityID \in CityIDsOf(graph)

\* C1: between two existing cities dijkstra returns the least sum of edge
\* weights over the directed paths when there is a path, and it returns an
\* empty result exactly when there is none.
C1_DijkstraOptimal ==
    (result.alg = "dijkstra" /\ BothExist) =>
        LET exists == PathExists(graph, result.sourceCityID, result.destCityID)
        IN  /\ result.ret.ptr = "PathResult"
            /\ exists => result.ret.totalDistance
                            = MinPathWeight(graph, result.sourceCityID, result.destCityID)
            /\ result.ret.pathLength = 0 <=> ~exists

WeightsAtLeastStraightLine(g) ==
    \A i \in 1..numCities(g) :
        \A k \in 1..Len(g.cities[i].adjList) :
            LET e  == g.cities[i].adjList[k]
                to == CityAt(g, findCityIndex(g, e.destCityID))
                dx == g.cities[i].x - to.x
                dy == g.cities[i].y - to.y
                r  == sqrtInt(dx * dx + dy * dy)
            IN  e.distance >= IF r * r = dx * dx + dy * dy THEN r ELSE r + 1

EdgePositions(g, fromCityID, toCityID) ==
    LET adjList == CityAt(g, findCityIndex(g, fromCityID)).adjList
    IN  {k \in 1..Len(adjList) : adjList[k].destCityID = toCityID}

\* No adjacency list holds two edges to the same identifier.
OneEdgePerTarget(g) ==
    \A i \in 1..numCities(g) :
        \A j, k \in 1..Len(g.cities[i].adjList) :
            g.cities[i].adjList[j].destCityID = g.cities[i].adjList[k].destCityID
                => j = k

\* g2 is g1 but for the distance of the edges from fromCityID to toCityID.
SameButDistance(g1, g2, fromCityID, toCityID) ==
    /\ numCities(g1) = numCities(g2)
    /\ \A i \in 1..numCities(g1) :
          /\ [g1.cities[i] EXCEPT !.adjList = <<>>] = [g2.cities[i] EXCEPT !.adjList = <<>>]
          /\ Len(g1.cities[i].adjList) = Len(g2.cities[i].adjList)
          /\ \A k \in 1..Len(g1.cities[i].adjList) :
                \/ g1.cities[i].adjList[k] = g2.cities[i].adjList[k]
                \/ /\ g1.cities[i].cityID = fromCityID
                   /\ g1.cities[i].adjList[k].destCityID = toCityID
                   /\ g2.cities[i].adjList[k].destCityID = toCityID

\* C11: a successful addRoad(a, b, w) leaves exactly one edge a -> b, of
\* weight w; no adjacency list ever holds two edges to one identifier; and
\* when the edge existed, the call changes neither its position nor
\* anything else of the graph.
C11_RoadUpdate ==
    [][/\ OneEdgePerTarget(graph')
       /\ (last'.op = "addRoad" /\ last'.ret = 1) =>
             /\ Cardinality(EdgePositions(graph', last'.from, last'.to)) = 1
             /\ EdgeWeight(graph', last'.from, last'.to) = last'.distance
             /\ EdgePositions(graph, last'.from, last'.to) # {} =>
                   /\ EdgePositions(graph', last'.from, last'.to)
                         = EdgePositions(graph, last'.from, last'.to)
                   /\ SameButDistance(graph, graph', last'.from, last'.to)]_vars

\* The last call was a successful addRoad of a road that is not the head
\* of its adjacency list, where a new road would be: the call updated it.
C11_Witness ==
    /\ last.op = "addRoad"
    /\ last.ret = 1
    /\ EdgePositions(graph, last.from, last.to) = {2}
    /\ EdgeWeight(graph, last.from, last.to) = 2

\* C12: addRoad returns 0 and leaves the graph unchanged when the distance
\* is not positive or an endpoint is absent, whether or not the road
\* exists; every edge of the graph has a positive weight.
C12_AddRoadRejects ==
    [][/\ (/\ last'.op = "addRoad"
           /\ \/ last'.distance <= 0
              \/ last'.from \notin CityIDsOf(graph)
              \/ last'.to \notin CityIDsOf(graph)) =>
              (last'.ret = 0 /\ graph' = graph)
       /\ \A i \in 1..numCities(graph') :
             \A k \in 1..Len(graph'.cities[i].adjList) :
                graph'.cities[i].adjList[k].distance > 0]_vars

\* addRoad with a distance that is not positive was refused for a road
\* that exists.
C12_Witness ==
    /\ last.op = "addRoad"
    /\ last.ret = 0
    /\ last.distance <= 0
    /\ last.from \in CityIDsOf(graph)
    /\ EdgePositions(graph, last.from, last.to) # {}

(* ------------------------------------------------------------------ *)
(* Properties of the example graph                                     *)
(* ------------------------------------------------------------------ *)

\* All the cities and roads of the example are in the graph.
ExampleBuilt ==
    /\ numCities(graph) = Len(ExampleCities)
    /\ numRoads(graph) = Len(ExampleRoads)

\* C13: on the example graph dijkstra(A, D) returns the path [A, C, D]
\* with totalDistance 7.
C13_ExamplePath ==
    (/\ ExampleBuilt
     /\ result.alg = "dijkstra"
     /\ result.sourceCityID = 0
     /\ result.destCityID = 3) =>
        /\ result.ret.path = <<0, 2, 3>>
        /\ result.ret.totalDistance = 7

\* What dijkstra(A, D) returns on the example graph: the path [A, B, D]
\* with totalDistance 7.
C13_ActualPath ==
    (/\ ExampleBuilt
     /\ result.alg = "dijkstra"
     /\ result.sourceCityID = 0
     /\ result.destCityID = 3) =>
        /\ result.ret.path = <<0, 1, 3>>
        /\ result.ret.totalDistance = 7

(* ------------------------------------------------------------------ *)
(* Properties of the outcomes of dijkstra and astar                    *)
(* ------------------------------------------------------------------ *)

\* C14: dijkstra and astar return NULL when the source or the destination
\* is absent, a PathResult with pathLength 0 and totalDistance 0 when both
\* exist and no directed path joins them, and a PathResult with pathLength
\* at least 1 when a path exists.
C14_NotFoundOrUnreachable ==
    (result.alg \in {"dijkstra", "astar"}) =>
        IF ~BothExist
        THEN result.ret = NULL
        ELSE IF ~PathExists(graph, result.sourceCityID, result.destCityID)
        THEN /\ result.ret.ptr = "PathResult"
             /\ result.ret.pathLength = 0
             /\ result.ret.totalDistance = 0
        ELSE /\ result.ret.ptr = "PathResult"
             /\ result.ret.pathLength >= 1

(* ------------------------------------------------------------------ *)
(* Traversals                                                          *)
(* ------------------------------------------------------------------ *)

\* The cities one road away from the city fromCityID.
Successors(g, fromCityID) ==
    {toCityID \in CityIDsOf(g) : EdgeWeight(g, fromCityID, toCityID) # 0}

\* The cities at most k roads away from startCityID.
RECURSIVE Within(_, _, _)
Within(g, startCityID, k) ==
    IF k = 0
    THEN {startCityID}
    ELSE LET near == Within(g, startCityID, k - 1)
         IN  near \cup UNION {Successors(g, c) : c \in near}

Reachable(g, startCityID) == Within(g, startCityID, numCities(g))

\* The least number of roads from startCityID to a reachable city.
HopDistance(g, startCityID, toCityID) ==
    CHOOSE k \in 0..numCities(g) :
        /\ toCityID \in Within(g, startCityID, k)
        /\ \A j \in 0..(k - 1) : toCityID \notin Within(g, startCityID, j)

Printed(order) == {order[i] : i \in 1..Len(order)}

\* C15: BFS from an existing city prints exactly the cities reachable from
\* it, each once, the start first and then in non-decreasing hop distance
\* from the start, and writes at most numCities slots of its queue.
C15_BFSOrder ==
    (traversal.alg = "BFS" /\ findCityIndex(graph, traversal.startCityID) # -1) =>
        /\ Printed(traversal.order) = Reachable(graph, traversal.startCityID)
        /\ Len(traversal.order) = Cardinality(Printed(traversal.order))
        /\ traversal.order[1] = traversal.startCityID
        /\ \A i, j \in 1..Len(traversal.order) :
              i < j => HopDistance(graph, traversal.startCityID, traversal.order[i])
                       <= HopDistance(graph, traversal.startCityID, traversal.order[j])
        /\ traversal.rear <= numCities(graph)

\* BFS printed four cities, two of them one road away and one two roads
\* away, and filled its queue.
C15_Witness ==
    /\ traversal.alg = "BFS"
    /\ Len(traversal.order) = 4
    /\ traversal.rear = numCities(graph)
    /\ HopDistance(graph, traversal.startCityID, traversal.order[2]) = 1
    /\ HopDistance(graph, traversal.startCityID, traversal.order[3]) = 1
    /\ HopDistance(graph, traversal.startCityID, traversal.order[4]) = 2

\* The cities printed before the i-th one.
PrintedBefore(order, i) == {order[j] : j \in 1..(i - 1)}

\* The targets of the roads of the city fromCityID, in adjacency-list
\* order, that are not in the set seen.
UnseenTargets(g, fromCityID, seen) ==
    SelectSeq([k \in 1..Len(CityAt(g, findCityIndex(g, fromCityID)).adjList) |->
                  CityAt(g, findCityIndex(g, fromCityID)).adjList[k].destCityID],
              LAMBDA c : c \notin seen)

\* The i-th city of a pre-order is the first road target, in adjacency-list
\* order, not yet printed, of the last printed city that still has one.
PreOrderStep(g, order, i) ==
    LET seen == PrintedBefore(order, i)
        open == {j \in 1..(i - 1) : UnseenTargets(g, order[j], seen) # <<>>}
    IN  /\ open # {}
        /\ LET j == CHOOSE m \in open : \A n \in open : n <= m
           IN  order[i] = Head(UnseenTargets(g, order[j], seen))

\* C16: DFS from an existing city prints the start, then the cities in
\* recursive pre-order following each adjacency list in its order; it
\* prints exactly the cities reachable from the start, each once, the
\* same set of cities as BFS from that start.
C16_DFSPreOrder ==
    (traversal.alg = "DFS" /\ findCityIndex(graph, traversal.startCityID) # -1) =>
        /\ traversal.order[1] = traversal.startCityID
        /\ \A i \in 2..Len(traversal.order) : PreOrderStep(graph, traversal.order, i)
        /\ Printed(traversal.order) = Reachable(graph, traversal.startCityID)
        /\ Len(traversal.order) = Cardinality(Printed(traversal.order))
        /\ Printed(traversal.order) = Printed(BFS(graph, traversal.startCityID).order)

\* DFS printed four cities in an order that is not the one of BFS, one of
\* them after returning from a city that has no road to it.
C16_Witness ==
    /\ traversal.alg = "DFS"
    /\ Len(traversal.order) = 4
    /\ traversal.order # BFS(graph, traversal.startCityID).order
    /\ \E i \in 2..3 :
          traversal.order[i + 1] \notin Successors(graph, traversal.order[i])

(* ------------------------------------------------------------------ *)
(* extractMin and decreaseKey                                          *)
(* ------------------------------------------------------------------ *)

HeapOrdered(h) ==
    \A i \in 1..(h.size - 1) :
        h.nodes[(i - 1) \div 2].fScore <= h.nodes[i].fScore

\* The number of slots 0..size-1 that hold the triple t.
Count(h, t) ==
    Cardinality({i \in 0..(h.size - 1) : h.nodes[i] = t})

Triples(h) == {h.nodes[i] : i \in 0..(h.size - 1)}

\* C17: extractMin on a non-empty heap in heap order returns a node of the
\* least fScore; the triples held afterwards are those held before minus
\* the node returned, the size is one less; when the node moved to the
\* root has two children that are smaller than it and equal, the left
\* child moves to the root.
C17_ExtractMin ==
    [][(SiftExtractMin /\ ~isHeapEmpty(heap) /\ HeapOrdered(heap)) =>
          LET node == extractMin(heap).node
              lastNode == heap.nodes[heap.size - 1]
          IN  /\ node \in Triples(heap)
              /\ \A t \in Triples(heap) : node.fScore <= t.fScore
              /\ heap'.size = heap.size - 1
              /\ \A t \in Triples(heap) \cup Triples(heap') :
                    Count(heap', t) = Count(heap, t) - (IF t = node THEN 1 ELSE 0)
              /\ (/\ heap.size >= 4
                  /\ heap.nodes[1].fScore = heap.nodes[2].fScore
                  /\ heap.nodes[1].fScore < lastNode.fScore)
                 => /\ heap'.nodes[0] = heap.nodes[1]
                    /\ heap'.nodes[2] = heap.nodes[2]
    ]_vars

\* An extractMin on four nodes moved the last node to the root, above two
\* equal smaller children, and minHeapify exchanged it with the left one.
C17_Witness ==
    /\ heap.size = 3
    /\ heap.capacity = SiftCapacity
    /\ heap.nodes[3] = heap.nodes[1]
    /\ heap.nodes[0].fScore = heap.nodes[2].fScore
    /\ heap.nodes[0].fScore < heap.nodes[1].fScore
    /\ heap.pos[heap.nodes[1].cityID] = 1

\* C18: in every reachable heap state decreaseKey with an identifier that
\* is not resident changes nothing: not the array, not the size, not the
\* position table.
C18_NonResidentNoOp ==
    \A id \in HeapIDs, f \in Scores :
        ~Resident(heap, id) =>
            LET after == decreaseKey(heap, id, f, f)
            IN  /\ after.nodes = heap.nodes
                /\ after.size = heap.size
                /\ after.pos = heap.pos

\* C18 for the identifiers the position table holds -1 for.
C18_SentinelNoOp ==
    \A id \in HeapIDs, f \in Scores :
        heap.pos[id] = -1 => decreaseKey(heap, id, f, f) = heap

(* ------------------------------------------------------------------ *)
(* addCity and sortCitiesByName                                        *)
(* ------------------------------------------------------------------ *)

\* An addCity step that succeeded: the identifier was not in the graph.
AddCitySucceeds ==
    /\ AddCity
    /\ last'.op = "addCity"
    /\ findCityIndex(graph, last'.id) = -1

\* The city is appended at slot numCities with no roads, the cities and
\* roads there were are unchanged.
AddCityAppends ==
    /\ numCities(graph') = numCities(graph) + 1
    /\ CityAt(graph', numCities(graph)).cityID = last'.id
    /\ CityAt(graph', numCities(graph)).adjList = <<>>
    /\ \A i \in 0..(numCities(graph) - 1) : CityAt(graph', i) = CityAt(graph, i)

\* C19: a successful addCity appends the city at slot numCities (the count
\* before the call) with an empty adjacency list, leaves every existing
\* city and edge unchanged, and returns the slot index.
C19_AddCityReturnsSlot ==
    [][AddCitySucceeds => (AddCityAppends /\ last'.ret = numCities(graph))]_vars

\* C19 with the value addCity returns on success, 1: a successful addCity
\* appends the city at slot numCities with an empty adjacency list, leaves
\* every existing city and edge unchanged, and returns 1.
C19_AddCityReturnsOne ==
    [][AddCitySucceeds => (AddCityAppends /\ last'.ret = 1)]_vars

\* addCity stored a third city behind two cities joined by a road.
C19_Witness ==
    /\ last.op = "addCity"
    /\ last.ret = 1
    /\ numCities(graph) = 3
    /\ CityAt(graph, 2).cityID = last.id
    /\ CityAt(graph, 2).adjList = <<>>
    /\ CityAt(graph, 0).adjList # <<>>

\* The names of the city records handed to addCity.
CityNames == {c.cityName : c \in CityRecords}

\* C20: sortCitiesByName leaves the cities in non-decreasing name order;
\* cities of equal names keep their relative order, so findCityByName
\* returns the same identifier before and after; the cities are the same,
\* each with its identifier, coordinates and adjacency list.
C20_SortStablePermutation ==
    [][SortCitiesByName =>
          /\ \A i, j \in 0..(numCities(graph') - 1) :
                i < j => strcmp(CityAt(graph', i).cityName,
                                CityAt(graph', j).cityName) <= 0
          /\ \A i, j \in 0..(numCities(graph) - 1) :
                (i < j /\ strcmp(CityAt(graph, i).cityName,
                                 CityAt(graph, j).cityName) = 0)
                => findCityIndex(graph', CityAt(graph, i).cityID)
                   < findCityIndex(graph', CityAt(graph, j).cityID)
          /\ \A name \in CityNames :
                findCityByName(graph', name) = findCityByName(graph, name)
          /\ numCities(graph') = numCities(graph)
          /\ {CityAt(graph', i) : i \in 0..(numCities(graph') - 1)}
             = {CityAt(graph, i) : i \in 0..(numCities(graph) - 1)}
    ]_vars

\* sortCitiesByName ran on three cities with roads, two of them of one
\* name and the one of the larger identifier first, behind a city of a
\* smaller name.
C20_Witness ==
    /\ last.op = "sortCitiesByName"
    /\ numCities(graph) = 3
    /\ numRoads(graph) >= 1
    /\ strcmp(CityAt(graph, 0).cityName, CityAt(graph, 1).cityName) < 0
    /\ strcmp(CityAt(graph, 1).cityName, CityAt(graph, 2).cityName) = 0
    /\ CityAt(graph, 1).cityID > CityAt(graph, 2).cityID

(* ------------------------------------------------------------------ *)
(* removeRoad, deleteCity and the frame of the algorithms              *)
(* ------------------------------------------------------------------ *)

\* The directed edge fromCityID -> toCityID is in the graph.
HasEdge(g, fromCityID, toCityID) ==
    /\ findCityIndex(g, fromCityID) # -1
    /\ EdgePositions(g, fromCityID, toCityID) # {}

\* C21: removeRoad(from, to) returns 0 and leaves the graph unchanged when
\* there is no edge from -> to, an edge to -> from or not; otherwise it
\* returns 1, the edges of from are the earlier ones without the edge to
\* `to`, in the same order, and nothing else of the graph changes.
C21_RemoveRoad ==
    [][RoadRemoveRoad =>
          IF ~HasEdge(graph, last'.from, last'.to)
          THEN last'.ret = 0 /\ graph' = graph
          ELSE /\ last'.ret = 1
               /\ numCities(graph') = numCities(graph)
               /\ \A i \in 0..(numCities(graph) - 1) :
                     IF CityAt(graph, i).cityID = last'.from
                     THEN CityAt(graph', i) =
                             [CityAt(graph, i) EXCEPT !.adjList =
                                 SelectSeq(CityAt(graph, i).adjList,
                                           LAMBDA e : e.destCityID # last'.to)]
                     ELSE CityAt(graph', i) = CityAt(graph, i)
    ]_vars

\* removeRoad unlinked the edge from -> to and the edge to -> from is
\* still there.
C21_Witness ==
    /\ last.op = "removeRoad"
    /\ last.ret = 1
    /\ last.from # last.to
    /\ ~HasEdge(graph, last.from, last.to)
    /\ HasEdge(graph, last.to, last.from)

\* The city record without the edges that target cityID, the others in
\* their order.
WithoutEdgesTo(city, cityID) ==
    [city EXCEPT !.adjList = SelectSeq(city.adjList,
                                       LAMBDA e : e.destCityID # cityID)]

\* C23: a successful deleteCity(x) removes city x with its edges and the
\* edges that target x; every other city keeps its identifier, name,
\* coordinates and its other edges in their order; the cities before x
\* keep their slot and those after x move one slot left. A deleteCity of
\* an absent identifier returns 0 and leaves the graph unchanged.
C23_DeleteCityFrame ==
    [][DeleteCity =>
          LET index == findCityIndex(graph, last'.id)
          IN  IF index = -1
              THEN last'.ret = 0 /\ graph' = graph
              ELSE /\ last'.ret = 1
                   /\ numCities(graph') = numCities(graph) - 1
                   /\ graph'.capacity = graph.capacity
                   /\ \A i \in 0..(index - 1) :
                         CityAt(graph', i) = WithoutEdgesTo(CityAt(graph, i), last'.id)
                   /\ \A i \in (index + 1)..(numCities(graph) - 1) :
                         CityAt(graph', i - 1) = WithoutEdgesTo(CityAt(graph, i), last'.id)
    ]_vars

\* deleteCity removed a city and left two, the first with a road to the
\* second and the second with a road to the first.
C23_Witness ==
    /\ last.op = "deleteCity"
    /\ last.ret = 1
    /\ numCities(graph) = 2
    /\ CityAt(graph, 0).adjList # <<>>
    /\ CityAt(graph, 1).adjList # <<>>

\* C24: dijkstra and astar index the position table of the heap only
\* inside its 1000 entries, whatever cities addCity accepted.
C24_PosIndexInTable ==
    result.alg \in {"dijkstra", "astar"} =>
        \A i \in result.indices : InTable(i)

\* C22: BFS, DFS, dijkstra and astar leave the graph as it was.
C22_AlgorithmsKeepGraph ==
    [][(RangeBFS \/ RangeDFS \/ RangeDijkstra \/ RangeAstar) => graph' = graph]_vars

(* ------------------------------------------------------------------ *)
(* The main loops of dijkstra and astar                                *)
(* ------------------------------------------------------------------ *)

\* The slots of the cities whose gScore an iteration of astar lowered.
Improved ==
    {v \in 0..(numCities(graph) - 1) :
        result'.st.gScore[v + 1] < result.st.gScore[v + 1]}

\* Every city the iteration improved is in the heap with its new scores.
ImprovedAreResident ==
    \A v \in Improved :
        \E i \in 0..(result'.st.h.size - 1) :
            result'.st.h.nodes[i] = HeapNode(CityAt(graph, v).cityID,
                                             result'.st.gScore[v + 1],
                                             result'.st.fScore[v + 1])

\* An iteration of the main loop of astar that went on to its end.
AstarIteration ==
    /\ SearchIterate
    /\ result.alg = "astar"
    /\ result'.pc = "loop"

\* C25: in astar every neighbour whose relaxation succeeds is resident in
\* the heap afterwards with its new gScore and fScore, on any graph: no
\* insertHeap is dropped for lack of room and a city that is not resident
\* is inserted again, not handed to decreaseKey.
C25_ImprovedIsResident ==
    [][AstarIteration => ImprovedAreResident]_vars

\* C25 for the calls in which no sum has left the range of int.
C25_ImprovedIsResidentInRange ==
    [][(AstarIteration /\ ~result'.st.overflow) => ImprovedAreResident]_vars

\* The slot reached from slot v by k parent links, -1 once the walk has
\* ended.
RECURSIVE Ancestor(_, _, _)
Ancestor(parent, v, k) ==
    IF k = 0 \/ v = -1 THEN v ELSE Ancestor(parent, parent[v + 1], k - 1)

\* The locals of a call that is in or past its main loop.
InCall ==
    /\ result.alg # "none"
    /\ result.st # NoLocals

\* No walk along the parent links comes back to a city, and the source
\* has no parent.
ParentsAcyclic ==
    /\ \A v \in 0..(numCities(graph) - 1) :
          Ancestor(result.st.parent, v, numCities(graph)) = -1
    /\ result.st.parent[findCityIndex(graph, result.sourceCityID) + 1] = -1

\* The path returned starts at the source, ends at the destination, holds
\* no identifier twice and fits the PathResult as it was created.
PathFits ==
    (result.pc = "done" /\ result.ret.pathLength > 0) =>
        /\ result.ret.path[1] = result.sourceCityID
        /\ result.ret.path[result.ret.pathLength] = result.destCityID
        /\ \A i, j \in 1..result.ret.pathLength :
              result.ret.path[i] = result.ret.path[j] => i = j
        /\ result.ret.pathLength <= numCities(graph)
        /\ result.ret.pathCapacity = numCities(graph)

\* C26: in dijkstra and astar the parent links never form a cycle and the
\* source keeps no parent; the walk from the destination ends at the
\* source, the path returned holds no identifier twice, is at most
\* numCities long and the PathResult never grows.
C26_ParentLinksAcyclic ==
    InCall => /\ ParentsAcyclic
              /\ result.pc # "never returns"
              /\ PathFits

\* C26 for the calls in which no sum has left the range of int.
C26_ParentLinksAcyclicInRange ==
    (InCall /\ ~result.st.overflow) =>
        /\ ParentsAcyclic
        /\ result.pc # "never returns"
        /\ PathFits

\* The iteration extracts the destination.
ExtractsDestination ==
    /\ ~isHeapEmpty(result.st.h)
    /\ result.st.h.nodes[0].cityID = result.destCityID

\* What ends the calls: the call is not stuck in its backtracking loop;
\* dijkstra has extracted at most numCities cities; the main
\* loop is left when the destination is extracted; an iteration of astar
\* raises no gScore and a city it puts back into the heap has a smaller
\* gScore than before.
CallGoesOn ==
    /\ result'.pc # "never returns"
    /\ result.alg = "dijkstra" => result'.extractions <= numCities(graph)
    /\ (SearchIterate /\ ExtractsDestination /\ result'.pc = "loop")
       => ~result'.st.running
    /\ (SearchIterate /\ result.alg = "astar" /\ result'.pc = "loop") =>
          \A v \in 0..(numCities(graph) - 1) :
             /\ result'.st.gScore[v + 1] <= result.st.gScore[v + 1]
             /\ (/\ ~Resident(result.st.h, CityAt(graph, v).cityID)
                 /\ Resident(result'.st.h, CityAt(graph, v).cityID))
                => result'.st.gScore[v + 1] < result.st.gScore[v + 1]

\* C27: every call of dijkstra and of astar returns, on every graph with
\* positive weights: dijkstra extracts each city at most once and stops
\* at the destination, astar lowers the gScore of every city it inserts
\* again.
C27_CallsTerminate ==
    [][(SearchIterate \/ SearchFinish) => CallGoesOn]_vars

\* C27 for the calls in which no sum has left the range of int.
C27_CallsTerminateInRange ==
    [][((SearchIterate \/ SearchFinish) /\ ~result'.st.overflow) => CallGoesOn]_vars


\* The sum of the weights of the roads path[i] -> path[i + 1], ..., as a
\* number; -1 when the sum is more than an int holds.
RECURSIVE ExactWeight(_, _, _)
ExactWeight(g, path, i) ==
    IF i >= Len(path)
    THEN 0
    ELSE LET w    == EdgeWeight(g, path[i], path[i + 1])
             rest == ExactWeight(g, path, i + 1)
         IN  IF rest = -1 \/ w > IntMax - rest THEN -1 ELSE w + rest

\* The weights of the directed paths from one city to another.
ExactWeights(g, sourceCityID, destCityID) ==
    {ExactWeight(g, p, 1) : p \in SimplePaths(g, sourceCityID, destCityID)}

\* The least of them, -1 when none fits an int.
LeastWeight(g, sourceCityID, destCityID) ==
    LET fit == ExactWeights(g, sourceCityID, destCityID) \ {-1}
    IN  IF fit = {} THEN -1 ELSE CHOOSE m \in fit : \A x \in fit : m <= x

\* A call of dijkstra that is in or past its main loop.
InDijkstra ==
    /\ InCall
    /\ result.alg = "dijkstra"

\* Every tentative distance that is not INF is the weight of a directed
\* path from the source, hence not negative.
DistancesArePathWeights ==
    \A v \in 0..(numCities(graph) - 1) :
        result.st.dist[v + 1] # INF =>
            /\ result.st.dist[v + 1] >= 0
            /\ result.st.dist[v + 1] \in
                  ExactWeights(graph, result.sourceCityID, CityAt(graph, v).cityID)

\* A destination that a directed path joins to the source is returned with
\* the weight of its lightest path.
ReachableIsReported ==
    (result.pc = "done"
       /\ PathExists(graph, result.sourceCityID, result.destCityID)) =>
        /\ result.ret.ptr = "PathResult"
        /\ result.ret.pathLength > 0
        /\ result.ret.totalDistance
              = LeastWeight(graph, result.sourceCityID, result.destCityID)

\* No road of the graph weighs INF or more.
WeightsBelowINF ==
    \A i \in 0..(numCities(graph) - 1) :
        \A k \in 1..Len(CityAt(graph, i).adjList) :
            CityAt(graph, i).adjList[k].distance < INF

\* C28: the tentative distances of dijkstra are exact for every weight
\* addRoad accepts: a distance that is not INF is not negative and is the
\* weight of a directed path from the source, no sum dist[u] + weight
\* leaves the range of int, and a destination that a path joins to the
\* source is reported reachable with its true distance, also when that
\* distance is 999999 or more.
C28_DistancesExact ==
    InDijkstra =>
        /\ ~result.st.overflow
        /\ DistancesArePathWeights
        /\ ReachableIsReported

\* C28 on the graphs whose roads all weigh less than INF.
C28_DistancesExactBelowINF ==
    (InDijkstra /\ WeightsBelowINF) =>
        /\ ~result.st.overflow
        /\ DistancesArePathWeights
        /\ ReachableIsReported

====
